---- MODULE Spec2Model ----
(***************************************************************************)
(* CMP query portal: the query lifecycle of app.py over the tables of      *)
(* models.py.  The committed database is the state; every request handler  *)
(* is one action; the HTTP response and the mail.send calls of the last    *)
(* request are observable outputs.                                         *)
(*                                                                         *)
(* Text is a sequence of one-character strings so that str.strip() and     *)
(* str.lower() are computed, not assumed.  Python None is NoneT for text   *)
(* columns and form fields, and 0 for integer columns (row ids start at 1).*)
(***************************************************************************)
EXTENDS Integers, Sequences, FiniteSets, TLC

\* ------------------------------------------------------------------ bounds
\* Rows the queries table may hold in a checked run.
MaxQueries == 2
\* Readings datetime.utcnow() can give are 1..MaxClock.
MaxClock == 1
\* Rows the faqs table may hold before mark_query_as_faq stops adding.
MaxFaqs == 3
\* Times the process is started in a checked run.
MaxRuns == 2
\* Callers that can be inside a seeding step at once.
MaxProcs == 3
\* Rows the students table holds before new sign-ups stop.
MaxStudents == 2

\* ------------------------------------------------------------- Python text
NoneT == <<"None">>
NoneId == 0

\* Variant: only None counts as missing.
Truthy_NoneOnly(t) == t # NoneT

\* bool(x) for an optional text value: None and '' are falsy.
Truthy(t) == t # NoneT /\ t # <<>>

\* `a or b` on optional text values.
PyOr(a, b) == IF Truthy(a) THEN a ELSE b

IsSpace(c) == c = " "

RECURSIVE LStrip(_)
LStrip(s) == IF s = <<>> \/ ~IsSpace(Head(s)) THEN s ELSE LStrip(Tail(s))

RECURSIVE RStrip(_)
RStrip(s) ==
    IF s = <<>> \/ ~IsSpace(s[Len(s)]) THEN s ELSE RStrip(SubSeq(s, 1, Len(s) - 1))

\* str.strip()
Strip(s) == RStrip(LStrip(s))

LowerChar(c) ==
    CASE c = "E" -> "e"
      [] OTHER -> c

\* str.lower()
Lower(s) == [i \in 1..Len(s) |-> LowerChar(s[i])]

\* The character classes of the regular expressions.
LowerLetters ==
    {"a", "b", "c", "d", "e", "f", "g", "h", "i", "j", "k", "l", "m", "n", "o", "p",
     "q", "r", "s", "t", "u", "v", "w", "x", "y", "z"}
UpperLetters ==
    {"A", "B", "C", "D", "E", "F", "G", "H", "I", "J", "K", "L", "M", "N", "O", "P",
     "Q", "R", "S", "T", "U", "V", "W", "X", "Y", "Z"}
DigitChars == <<"0", "1", "2", "3", "4", "5", "6", "7", "8", "9">>
Digits == {DigitChars[i] : i \in 1..10}
Specials == {"@", "$", "!", "%", "*", "?", "&"}

\* str(n) for n >= 0
RECURSIVE Str(_)
Str(n) ==
    IF n < 10 THEN <<DigitChars[n + 1]>>
    ELSE Str(n \div 10) \o <<DigitChars[(n % 10) + 1]>>

\* The text before the first occurrence of the separator: s.split(sep)[0].
RECURSIVE Before(_, _)
Before(s, sep) ==
    IF s = <<>> \/ Head(s) = sep THEN <<>> ELSE <<Head(s)>> \o Before(Tail(s), sep)

\* re.sub(r'[^a-z0-9]', '', s)
IsLowerAlnum(c) == c \in LowerLetters \cup Digits
KeepLowerAlnum(s) == SelectSeq(s, IsLowerAlnum)

\* ^[a-zA-Z0-9._%+-]+@[a-zA-Z0-9.-]+\.[a-zA-Z]{2,}$
EmailPattern(s) ==
    LET letters == LowerLetters \cup UpperLetters
        local == letters \cup Digits \cup {".", "_", "%", "+", "-"}
        domain == letters \cup Digits \cup {".", "-"}
    IN \E at \in 1..Len(s), dot \in 1..Len(s) :
          /\ at > 1
          /\ s[at] = "@"
          /\ \A i \in 1..(at - 1) : s[i] \in local
          /\ dot > at + 1
          /\ s[dot] = "."
          /\ \A i \in (at + 1)..(dot - 1) : s[i] \in domain
          /\ Len(s) - dot >= 2
          /\ \A i \in (dot + 1)..Len(s) : s[i] \in letters

\* ^(?=.*[a-z])(?=.*[A-Z])(?=.*\d)(?=.*[@$!%*?&])[A-Za-z\d@$!%*?&]{8,}$
SignupPasswordPattern(s) ==
    /\ Len(s) >= 8
    /\ \A i \in 1..Len(s) : s[i] \in LowerLetters \cup UpperLetters \cup Digits \cup Specials
    /\ \E i \in 1..Len(s) : s[i] \in LowerLetters
    /\ \E i \in 1..Len(s) : s[i] \in UpperLetters
    /\ \E i \in 1..Len(s) : s[i] \in Digits
    /\ \E i \in 1..Len(s) : s[i] \in Specials

\* ^(?=.*[A-Za-z])(?=.*\d)(?=.*[@$!%*?&]).{8,}$
ResetPasswordPattern(s) ==
    /\ Len(s) >= 8
    /\ \E i \in 1..Len(s) : s[i] \in LowerLetters \cup UpperLetters
    /\ \E i \in 1..Len(s) : s[i] \in Digits
    /\ \E i \in 1..Len(s) : s[i] \in Specials

\* werkzeug generate_password_hash / check_password_hash: a hash matches
\* exactly the password it was made from.
generate_password_hash(p) == <<"pbkdf2", p>>
check_password_hash(h, p) == h = generate_password_hash(p)

\* ---------------------------------------------------------------- literals
DEFAULT_CATEGORY == <<"o", "t", "h", "e", "r">>
STUDENT == <<"s", "t", "u", "d", "e", "n", "t">>
STUDENT_LOCAL == <<"s", "t", "u", "d", "e", "n", "t", "@", "l", "o", "c", "a", "l">>
ADMIN == <<"a", "d", "m", "i", "n">>
ADMIN_LOCAL == <<"a", "d", "m", "i", "n", "@", "l", "o", "c", "a", "l">>
ADMIN_NAME == <<"A", "d", "m", "i", "n">>
DEFAULT_STUDENT ==
    <<"D", "e", "f", "a", "u", "l", "t", " ", "S", "t", "u", "d", "e", "n", "t">>

\* ------------------------------------------------------------------- state
VARIABLES
    queries,         \* table queries: row id = position
    students,        \* table students
    admins,          \* table admins
    blocked_emails,  \* table blocked_emails
    faqs,            \* table faqs
    session,         \* the browser's Flask session cookie
    mail_configured, \* MAIL_USERNAME and MAIL_PASSWORD are both set
    resp,            \* flash message and status code of the last response
    outbox,          \* mail.send calls made by the last request
    schema,          \* live columns of every table, as PRAGMA table_info reads them
    boot,            \* where the process is between its start and serving
    log,             \* ALTERs attempted and errors met by the last startup step
    seeders,         \* callers that are inside a seeding step for a default row
    requests         \* requests in flight: each caller's place between two statements

vars == <<queries, students, admins, blocked_emails, faqs, session,
          mail_configured, resp, outbox, schema, boot, log, seeders, requests>>

\* What a request handler leaves alone: the mail settings, the schema, the
\* startup and the other callers.
env == <<mail_configured, schema, boot, log, seeders, requests>>

db == <<queries, students, admins, blocked_emails, faqs>>

\* ------------------------------------------------------------------ models
Query(name, email, category, message, student_id) ==
    [name |-> name, email |-> email, message |-> message, category |-> category,
     status |-> "Pending", response |-> NoneT, admin_response |-> NoneT,
     admin_reply_text |-> NoneT, admin_reply_at |-> NoneId,
     admin_reply_seen |-> FALSE, student_id |-> student_id]

Admin(username, password_hash, name, email) ==
    [username |-> username, password_hash |-> password_hash, name |-> name,
     full_name |-> name, email |-> email, is_active |-> TRUE, is_blocked |-> FALSE]

Student(student_id, name, email, password) ==
    [student_id |-> student_id, name |-> name, email |-> email,
     password |-> password, is_blocked |-> FALSE]

BlockedEmail(email) == [email |-> email, is_active |-> TRUE]

FAQ(question, answer, category, from_query_id) ==
    [question |-> question, answer |-> answer, frequency |-> 1,
     category |-> category, from_query_id |-> from_query_id, is_active |-> TRUE]

\* Model.query.filter(...).first() over the ids of the matching rows: the
\* lowest id, 0 for None.
First(hits) ==
    IF hits = {} THEN NoneId ELSE CHOOSE i \in hits : \A j \in hits : i <= j

\* The ids of a table's rows.
Ids(table) == 1..Len(table)

\* Model.query.get(id): the id when the row exists, 0 for None.
Get(table, id) == IF id \in 1..Len(table) THEN id ELSE NoneId

EmptySession ==
    [student_logged_in |-> FALSE, student_id |-> NoneId, admin_logged_in |-> FALSE]

Response(flash, code) == [flash |-> flash, code |-> code]

\* ------------------------------------------------------------------ schema
\* A live column with its NOT NULL and UNIQUE constraints.
Column(notnull, unique) == [notnull |-> notnull, unique |-> unique]

\* CREATE TABLE from a model class: the primary key and unique=True columns,
\* the other nullable=False columns, and the nullable ones.
CreateTable(keys, required, optional) ==
    [c \in keys \cup required \cup optional |->
        Column(c \in keys \cup required, c \in keys)]

Tables == {"queries", "admins", "students", "blocked_emails", "faqs"}

\* db.metadata: the tables and columns models.py declares.
Declared ==
    [queries |->
        CreateTable({"id"}, {"name", "email", "message"},
                    {"category", "status", "response", "admin_response",
                     "admin_reply_text", "admin_reply_at", "admin_reply_seen",
                     "student_id", "created_at"}),
     admins |->
        CreateTable({"id", "username", "email"}, {"password_hash", "name", "full_name"},
                    {"is_active", "is_blocked", "created_at"}),
     students |->
        CreateTable({"id", "student_id", "email"}, {"name", "password"}, {"is_blocked"}),
     blocked_emails |->
        CreateTable({"id", "email"}, {}, {"is_active", "created_at"}),
     faqs |->
        CreateTable({"id"}, {"question"},
                    {"answer", "frequency", "category", "from_query_id", "is_active",
                     "created_at"})]

\* A table that does not exist: PRAGMA table_info returns no row for it.
NoTable == [c \in {} |-> Column(FALSE, FALSE)]

\* The database file as the startup code works on it: the live schema, the
\* rows of every table, and the ALTERs attempted and errors logged so far.
Database ==
    [schema |-> schema,
     rows |-> [queries |-> queries, admins |-> admins, students |-> students,
               blocked_emails |-> blocked_emails, faqs |-> faqs],
     alters |-> <<>>,
     errors |-> <<>>]

NoLog == [alters |-> <<>>, errors |-> <<>>]

\* app.logger.exception / print in an except clause.
Logged(d, message) == [d EXCEPT !.errors = Append(@, message)]

\* Variant: a table with columns missing is dropped and created again.
create_all_Rebuild(d) ==
    [d EXCEPT !.schema = Declared,
              !.rows = [t \in Tables |->
                           IF DOMAIN Declared[t] \subseteq DOMAIN d.schema[t]
                           THEN d.rows[t] ELSE <<>>]]

\* db.create_all(): CREATE TABLE for every declared table that does not
\* exist; a table that exists is left as it is.
create_all(d) ==
    [d EXCEPT !.schema = [t \in Tables |->
                             IF DOMAIN d.schema[t] = {} THEN Declared[t] ELSE d.schema[t]]]

\* No ALTER statement is made to fail.
NoFailure == <<>>

\* conn.execute("ALTER TABLE t ADD COLUMN c ..."): raises for a missing table,
\* for a column that exists, and when the storage refuses this statement
\* (fail names it); otherwise the column is there at once, nullable and not
\* unique, and every stored row has the default in it.
AlterTableAddColumn(d, t, c, default, fail) ==
    LET attempted == [d EXCEPT !.alters = Append(@, <<t, c>>)]
        columns == d.schema[t]
        stored == d.rows[t]
    IN IF fail = <<t, c>> \/ DOMAIN columns = {} \/ c \in DOMAIN columns
       THEN [d |-> attempted, raised |-> TRUE]
       ELSE [d |-> [attempted EXCEPT
                       !.schema[t] = [k \in DOMAIN columns \cup {c} |->
                                         IF k = c THEN Column(FALSE, FALSE)
                                                  ELSE columns[k]],
                       !.rows[t] = [i \in 1..Len(stored) |->
                                       [k \in DOMAIN stored[i] \cup {c} |->
                                           IF k = c THEN default ELSE stored[i][k]]]],
             raised |-> FALSE]

\* A run of `if c not in cols: ALTER ...` statements inside one try block:
\* todo lists <<column, default>>, cols is the PRAGMA reading taken before,
\* and the first ALTER that raises ends the block.
RECURSIVE AddMissing(_, _, _, _, _)
AddMissing(d, t, cols, todo, fail) ==
    IF todo = <<>> THEN [d |-> d, raised |-> FALSE]
    ELSE IF Head(todo)[1] \in cols THEN AddMissing(d, t, cols, Tail(todo), fail)
    ELSE LET r == AlterTableAddColumn(d, t, Head(todo)[1], Head(todo)[2], fail)
         IN IF r.raised THEN r ELSE AddMissing(r.d, t, cols, Tail(todo), fail)

\* A SELECT through a model class names every declared column: it raises
\* OperationalError when the table or one of the columns is missing.
SelectRaises(d, t) == ~(DOMAIN Declared[t] \subseteq DOMAIN d.schema[t])

\* Variant: the INSERT does not check the UNIQUE columns.
InsertRow_NoUnique(d, t, row) ==
    LET columns == d.schema[t]
    IN IF \E c \in DOMAIN row : c \notin DOMAIN columns \/ (columns[c].notnull /\ row[c] = NoneT)
       THEN [d |-> d, raised |-> TRUE]
       ELSE [d |-> [d EXCEPT !.rows[t] = Append(@, row)], raised |-> FALSE]

\* db.session.add(row); db.session.commit() against the live constraints:
\* the INSERT raises for an unknown column, for None in a NOT NULL column
\* and for a value a UNIQUE column already holds.
InsertRow(d, t, row) ==
    LET columns == d.schema[t]
        stored == d.rows[t]
    IN IF \E c \in DOMAIN row : c \notin DOMAIN columns
       THEN [d |-> d, raised |-> TRUE]
       ELSE IF \E c \in DOMAIN row :
                  \/ columns[c].notnull /\ row[c] = NoneT
                  \/ /\ columns[c].unique
                     /\ row[c] # NoneT
                     /\ \E i \in 1..Len(stored) :
                           c \in DOMAIN stored[i] /\ stored[i][c] = row[c]
       THEN [d |-> d, raised |-> TRUE]
       ELSE [d |-> [d EXCEPT !.rows[t] = Append(@, row)], raised |-> FALSE]

\* The rows create_tables and the login fallbacks build.
DefaultAdmin ==
    Admin(ADMIN, generate_password_hash("admin123"), ADMIN_NAME, ADMIN_LOCAL)
DefaultStudent ==
    Student(STUDENT, DEFAULT_STUDENT, STUDENT_LOCAL, generate_password_hash("student123"))
\* admin_login builds the row without name, full_name and email.
FallbackAdmin == Admin(ADMIN, generate_password_hash("admin123"), NoneT, NoneT)

\* The callers of a seeding step, and a caller that is in none.
Procs == 1..MaxProcs
Idle == [at |-> "idle", kind |-> "none", raised |-> FALSE]

\* ----------------------------------------------------------------- startup
\* python app.py: create_tables() on an empty database seeds the default
\* admin and the default student; no request has been served yet.
Init ==
    /\ queries = <<>>
    /\ students = <<DefaultStudent>>
    /\ admins = <<DefaultAdmin>>
    /\ blocked_emails = <<>>
    /\ faqs = <<>>
    /\ session = EmptySession
    /\ mail_configured \in BOOLEAN
    /\ resp = Response("", 0)
    /\ outbox = <<>>
    /\ schema = Declared
    /\ boot = [pc |-> "serving", runs |-> 1, clean |-> TRUE, prior |-> FALSE,
               RESET_DB |-> ""]
    /\ log = NoLog
    /\ seeders = [p \in Procs |-> Idle]
    /\ requests = [p \in Procs |-> Idle]

\* ------------------------------------------------------------ request forms
Form(name, guest_name, email, guest_email, category, message, guest_query) ==
    [name |-> name, guest_name |-> guest_name, email |-> email,
     guest_email |-> guest_email, category |-> category, message |-> message,
     guest_query |-> guest_query]

\* The student form posts name/email/category/message: the complete forms,
\* and the forms with one required field left out.
StudentForms ==
    {Form(<<"n", " ">>, NoneT, <<"E", " ">>, NoneT, <<"c", " ">>, m, NoneT) :
        m \in {<<"m">>, <<" ", "m">>}}
    \cup {Form(NoneT, NoneT, <<"E", " ">>, NoneT, <<"c", " ">>, <<"m">>, NoneT),
          Form(<<"n", " ">>, NoneT, NoneT, NoneT, <<"c", " ">>, <<"m">>, NoneT),
          Form(<<"n", " ">>, NoneT, <<"E", " ">>, NoneT, <<"c", " ">>, NoneT, NoneT)}

\* The guest form posts guest_name/guest_email/guest_query and no category:
\* the complete form, and the forms with one required field left empty.
GuestForms ==
    {Form(NoneT, <<"n">>, NoneT, <<"e">>, NoneT, <<>>, <<"k">>),
     Form(NoneT, <<>>, NoneT, <<"e">>, NoneT, <<>>, <<"k">>),
     Form(NoneT, <<"n">>, NoneT, <<>>, NoneT, <<>>, <<"k">>),
     Form(NoneT, <<"n">>, NoneT, <<"e">>, NoneT, <<>>, <<>>)}

Forms == StudentForms \cup GuestForms

\* --------------------------------------------------------------- decorators
\* Variant: the wrapper lets every request through.
admin_required_Open == TRUE

\* admin_required / student_required: the wrapped handler runs only with the
\* session flag; otherwise the request is redirected to the login page.
admin_required == session.admin_logged_in

student_required == session.student_logged_in

RejectAdmin ==
    /\ resp' = Response("Please log in as admin", 302)
    /\ outbox' = <<>>
    /\ UNCHANGED <<db, session, env>>

RejectStudent ==
    /\ resp' = Response("Please log in as a student", 302)
    /\ outbox' = <<>>
    /\ UNCHANGED <<db, session, env>>

\* ------------------------------------------------------------- submit_query
\* Variant: an insert that skips a row equal to a stored one.
AddAndCommit_Dedup(table, row) ==
    IF \E i \in 1..Len(table) : table[i] = row THEN table ELSE Append(table, row)

\* db.session.add(row); db.session.commit(): the row gets the next id.
AddAndCommit(table, row) == Append(table, row)

\* Variant: the lookup compares the untrimmed message.
FaqAutoUpdate_RawMatch(table, message, category) ==
    LET existing_faq ==
            First({f \in Ids(table) :
                      table[f].question = message /\ table[f].is_active})
    IN IF existing_faq # NoneId
       THEN [table EXCEPT ![existing_faq].frequency = @ + 1]
       ELSE Append(table, FAQ(Strip(message), NoneT,
                              IF Truthy(category) THEN Strip(category) ELSE NoneT,
                              NoneId))

\* Variant: the lookup also matches an entry that is switched off.
FaqAutoUpdate_AnyEntry(table, message, category) ==
    LET existing_faq == First({f \in Ids(table) : table[f].question = Strip(message)})
    IN IF existing_faq # NoneId
       THEN [table EXCEPT ![existing_faq].frequency = @ + 1]
       ELSE Append(table, FAQ(Strip(message), NoneT,
                              IF Truthy(category) THEN Strip(category) ELSE NoneT,
                              NoneId))

\* Variant: an entry that is switched off is switched on and counted again.
FaqAutoUpdate_Reactivate(table, message, category) ==
    LET existing_faq == First({f \in Ids(table) : table[f].question = Strip(message)})
    IN IF existing_faq # NoneId
       THEN [table EXCEPT ![existing_faq].frequency = @ + 1,
                          ![existing_faq].is_active = TRUE]
       ELSE Append(table, FAQ(Strip(message), NoneT,
                              IF Truthy(category) THEN Strip(category) ELSE NoneT,
                              NoneId))

\* FAQ auto-update: bump the first active FAQ whose question is the trimmed
\* message, else insert a new one with frequency 1.
FaqAutoUpdate(table, message, category) ==
    LET existing_faq ==
            First({f \in Ids(table) :
                      table[f].question = Strip(message) /\ table[f].is_active})
    IN IF existing_faq # NoneId
       THEN [table EXCEPT ![existing_faq].frequency = @ + 1]
       ELSE AddAndCommit(table, FAQ(Strip(message), NoneT,
                              IF Truthy(category) THEN Strip(category) ELSE NoneT,
                              NoneId))

\* Variant: the block flag is trusted from login time and not read again.
StudentIsBlocked_AtLoginOnly(student_fk) == FALSE

\* Is the submission from a blocked sender: a student session is checked
\* against students.is_blocked, any other against the active blocked_emails.
StudentIsBlocked(student_fk) ==
    LET s_obj == Get(students, student_fk)
    IN s_obj # NoneId /\ students[s_obj].is_blocked

\* Variant: the lookup compares the address as typed.
EmailIsBlocked_AsTyped(email) ==
    /\ Truthy(email)
    /\ First({b \in Ids(blocked_emails) :
                 blocked_emails[b].email = email /\ blocked_emails[b].is_active}) # NoneId

EmailIsBlocked(email) ==
    /\ Truthy(email)
    /\ First({b \in Ids(blocked_emails) :
                 /\ blocked_emails[b].email = Lower(Strip(email))
                 /\ blocked_emails[b].is_active}) # NoneId

\* Variant: the rollback discards everything the request wrote.
Rollback_WholeRequest(committed, pending) == [queries |-> queries, faqs |-> faqs]

\* db.session.rollback(): what was flushed since the last commit is dropped,
\* the committed rows stay.
Rollback(committed, pending) == committed

\* The handler; faq_error says that a statement of the FAQ block raises
\* (the lookup, or the commit of the increment or of the new row).
submit_query_step(form, faq_error) ==
    LET name == PyOr(form.name, form.guest_name)
        email == PyOr(form.email, form.guest_email)
        category == PyOr(form.category, DEFAULT_CATEGORY)
        message == PyOr(form.message, form.guest_query)
        student_id == session.student_id
        \* int(student_id): the session only ever holds students.id
        student_fk == student_id
    IN /\ outbox' = <<>>
       /\ UNCHANGED <<students, admins, blocked_emails, session, env>>
       /\ IF ~Truthy(name) \/ ~Truthy(email) \/ ~Truthy(message)
          THEN /\ resp' = Response("All fields are required", 302)
               /\ UNCHANGED <<queries, faqs>>
          ELSE IF student_fk # NoneId /\ StudentIsBlocked(student_fk)
          THEN /\ resp' = Response("Your account has been blocked", 302)
               /\ UNCHANGED <<queries, faqs>>
          ELSE IF student_fk = NoneId /\ EmailIsBlocked(email)
          THEN /\ resp' = Response("This email is blocked from submitting queries", 302)
               /\ UNCHANGED <<queries, faqs>>
          ELSE LET \* db.session.add(q); db.session.commit()
                   committed ==
                       [queries |-> AddAndCommit(queries,
                                       Query(Strip(name), Strip(email),
                                             IF Truthy(category) THEN Strip(category)
                                                                 ELSE NoneT,
                                             Strip(message), student_fk)),
                        faqs |-> faqs]
                   \* the try block of the FAQ auto-update
                   pending ==
                       [committed EXCEPT !.faqs = FaqAutoUpdate(faqs, message, category)]
                   stored == IF faq_error THEN Rollback(committed, pending) ELSE pending
               IN /\ Len(queries) < MaxQueries
                  /\ queries' = stored.queries
                  /\ faqs' = stored.faqs
                  /\ resp' = Response("Your query has been submitted successfully.", 302)

\* A submission during which the FAQ block meets no error.
submit_query(form) == submit_query_step(form, FALSE)

\* ------------------------------------------------------------ login / logout
student_login(email, password) ==
    LET identifier == Lower(Strip(email))
        by_email == First({s \in Ids(students) : students[s].email = identifier})
        by_handle == First({s \in Ids(students) : students[s].student_id = identifier})
        found == IF by_email # NoneId THEN by_email ELSE by_handle
        \* fallback: seed the default student when 'student' matches no row
        seed == found = NoneId /\ identifier = STUDENT
        table == IF seed
                 THEN Append(students,
                             Student(STUDENT, DEFAULT_STUDENT, STUDENT_LOCAL,
                                     generate_password_hash("student123")))
                 ELSE students
        student == IF seed THEN Len(table) ELSE found
    IN /\ students' = table
       /\ outbox' = <<>>
       /\ UNCHANGED <<queries, admins, blocked_emails, faqs, env>>
       /\ IF student # NoneId /\ check_password_hash(table[student].password, password)
          THEN IF table[student].is_blocked
               THEN /\ resp' = Response("Your account has been blocked", 403)
                    /\ UNCHANGED session
               ELSE /\ session' = [session EXCEPT !.student_logged_in = TRUE,
                                                  !.student_id = student]
                    /\ resp' = Response("Logged in successfully", 302)
          ELSE /\ resp' = Response("Invalid email or student ID or password", 401)
               /\ UNCHANGED session

admin_login(email, password) ==
    LET identifier == Lower(Strip(email))
        by_email == First({a \in Ids(admins) : admins[a].email = identifier})
        by_username == First({a \in Ids(admins) : admins[a].username = identifier})
        found == IF by_email # NoneId THEN by_email ELSE by_username
        \* fallback: insert the default admin when 'admin' matches no row; an
        \* error of the insert is logged and leaves admin as None
        seed == found = NoneId /\ identifier = ADMIN
        inserted == InsertRow(Database, "admins", FallbackAdmin)
        table == IF seed /\ ~inserted.raised THEN inserted.d.rows.admins ELSE admins
        admin == IF seed /\ ~inserted.raised THEN Len(table) ELSE found
    IN /\ admins' = table
       /\ outbox' = <<>>
       /\ UNCHANGED <<queries, students, blocked_emails, faqs, env>>
       /\ IF admin # NoneId /\ check_password_hash(table[admin].password_hash, password)
          THEN IF ~table[admin].is_active \/ table[admin].is_blocked
               THEN /\ resp' = Response("Your admin account is inactive or blocked", 403)
                    /\ UNCHANGED session
               ELSE /\ session' = [session EXCEPT !.admin_logged_in = TRUE]
                    /\ resp' = Response("Logged in successfully", 302)
          ELSE /\ resp' = Response("Invalid email or password", 401)
               /\ UNCHANGED session

logout ==
    /\ session' = EmptySession
    /\ resp' = Response("Logged out", 302)
    /\ outbox' = <<>>
    /\ UNCHANGED <<db, env>>

admin_logout ==
    /\ session' = [session EXCEPT !.admin_logged_in = FALSE]
    /\ resp' = Response("Admin logged out", 302)
    /\ outbox' = <<>>
    /\ UNCHANGED <<db, env>>

\* ------------------------------------------------------- sign-up of students
\* The forms of /student_signup and /register.
SignupForm(name, email, password, confirm_password) ==
    [name |-> name, email |-> email, password |-> password,
     confirm_password |-> confirm_password]

\* request.form.get(key, '') and (request.form.get(key) or '')
Field(v) == IF v = NoneT THEN <<>> ELSE v

\* The checks both handlers make before they read the database: the
\* response that turns the form away, or the code 0 when it passes.
Validate(kind, form) ==
    LET name == Strip(Field(form.name))
        email == Lower(Strip(Field(form.email)))
        password == Field(form.password)
    IN IF kind = "student_signup"
       THEN IF password # Field(form.confirm_password)
            THEN Response("Passwords do not match", 400)
            ELSE IF ~EmailPattern(email)
            THEN Response("Please provide a valid email address", 400)
            ELSE IF ~SignupPasswordPattern(password)
            THEN Response("Password must be 8+ chars: upper, lower, number, special char",
                          400)
            ELSE Response("", 0)
       ELSE IF name = <<>> \/ email = <<>> \/ password = <<>>
            THEN Response("All fields are required", 400)
            ELSE Response("", 0)

\* The base of the textual student_id: the first word of the name, else the
\* part of the address before '@', lower-cased and cut down to a-z0-9.
StudentIdBase(name, email) ==
    LET from_name == IF name # <<>> THEN KeepLowerAlnum(Lower(Before(name, " ")))
                                     ELSE <<>>
    IN IF from_name # <<>> THEN from_name
       ELSE KeepLowerAlnum(Lower(Before(email, "@")))

\* Student.query.filter_by(email=email) finds a row.
EmailRegistered(table, email) == \E i \in 1..Len(table) : table[i].email = email

\* Student.query.filter_by(student_id=candidate).count() > 0
StudentIdTaken(table, candidate) ==
    \E i \in 1..Len(table) : table[i].student_id = candidate

\* A request inside a sign-up handler: the statement it is at and its locals.
Signing(at, kind, name, email, password, base, candidate, suffix) ==
    [at |-> at, kind |-> kind, raised |-> FALSE, name |-> name, email |-> email,
     password |-> password, base |-> base, candidate |-> candidate, suffix |-> suffix]

\* The handler up to its first reading of the students table: the form checks
\* and the look-up of the address.
signup_begin(p, kind, form) ==
    LET name == Strip(Field(form.name))
        email == Lower(Strip(Field(form.email)))
        base == StudentIdBase(name, email)
        checked == Validate(kind, form)
    IN /\ requests[p].at = "idle"
       /\ Len(students) < MaxStudents
       /\ outbox' = <<>>
       /\ UNCHANGED <<db, session, mail_configured, schema, boot, log, seeders>>
       /\ IF checked.code # 0
          THEN /\ resp' = checked
               /\ UNCHANGED requests
          ELSE IF EmailRegistered(students, email)
          THEN /\ resp' = Response("Email already registered", 409)
               /\ UNCHANGED requests
          ELSE /\ requests' =
                     [requests EXCEPT
                        ![p] = Signing("pick", kind, name, email, Field(form.password),
                                       base, IF base # <<>> THEN base ELSE STUDENT, 0)]
               /\ UNCHANGED resp

\* One turn of `while Student.query.filter_by(student_id=candidate).count() > 0`.
signup_pick(p) ==
    LET r == requests[p]
    IN /\ r.at = "pick"
       /\ requests' =
             [requests EXCEPT
                ![p] = IF StudentIdTaken(students, r.candidate)
                       THEN [r EXCEPT !.suffix = @ + 1,
                                      !.candidate = r.base \o Str(r.suffix + 1)]
                       ELSE [r EXCEPT !.at = "insert"]]
       /\ UNCHANGED <<db, session, mail_configured, resp, outbox, schema, boot, log,
                      seeders>>

\* db.session.add(student); db.session.commit(): an IntegrityError is not
\* caught by the handler and the request ends with status 500.
signup_insert(p) ==
    LET r == requests[p]
        inserted == InsertRow(Database, "students",
                              Student(r.candidate, r.name, r.email,
                                      generate_password_hash(r.password)))
    IN /\ r.at = "insert"
       /\ students' = inserted.d.rows.students
       /\ requests' = [requests EXCEPT ![p] = Idle]
       /\ resp' = IF inserted.raised THEN Response("", 500)
                  ELSE IF r.kind = "student_signup"
                  THEN Response("Account created! Login below.", 302)
                  ELSE Response("Registration successful. Please log in.", 302)
       /\ outbox' = <<>>
       /\ UNCHANGED <<queries, admins, blocked_emails, faqs, session, mail_configured,
                      schema, boot, log, seeders>>

\* POST /student_reset_password/<token>: sid is the id the token carries, 0
\* for a token that is invalid or expired.
student_reset_password(sid, new_password, confirm_password) ==
    LET student == Get(students, sid)
        password == Field(new_password)
    IN /\ outbox' = <<>>
       /\ UNCHANGED <<queries, admins, blocked_emails, faqs, session, env>>
       /\ IF student = NoneId
          THEN /\ resp' = Response("Reset link is invalid or expired", 302)
               /\ UNCHANGED students
          ELSE IF password # Field(confirm_password)
          THEN /\ resp' = Response("Passwords do not match", 200)
               /\ UNCHANGED students
          ELSE IF ~ResetPasswordPattern(password)
          THEN /\ resp' = Response("Password must be 8+ chars with letters, digits, and special character", 200)
               /\ UNCHANGED students
          ELSE /\ students' = [students EXCEPT
                                  ![student].password = generate_password_hash(password)]
               /\ resp' = Response("Password updated. Please log in.", 302)

\* ------------------------------------------------------------ block toggles
toggle_block_student(sid) ==
    IF ~admin_required THEN RejectAdmin
    ELSE /\ outbox' = <<>>
         /\ UNCHANGED <<queries, admins, blocked_emails, faqs, session, env>>
         /\ IF Get(students, sid) = NoneId
            THEN /\ resp' = Response("Not Found", 404)
                 /\ UNCHANGED students
            ELSE /\ students' = [students EXCEPT ![sid].is_blocked = ~@]
                 /\ resp' = Response("Student block status updated", 302)

\* Variant: unblocking removes the entry.
ToggleBlockedEmail_Delete(table, email) ==
    LET b == First({r \in Ids(table) : table[r].email = email})
    IN IF b = NoneId THEN Append(table, BlockedEmail(email))
       ELSE IF table[b].is_active
       THEN SubSeq(table, 1, b - 1) \o SubSeq(table, b + 1, Len(table))
       ELSE [table EXCEPT ![b].is_active = TRUE]

\* The entry of the address is created active, or its is_active is flipped.
ToggleBlockedEmail(table, email) ==
    LET b == First({r \in Ids(table) : table[r].email = email})
    IN IF b = NoneId
       THEN Append(table, BlockedEmail(email))
       ELSE [table EXCEPT ![b].is_active = ~@]

toggle_block_guest(raw) ==
    IF ~admin_required THEN RejectAdmin
    ELSE LET email == Lower(Strip(PyOr(raw, <<>>)))
         IN /\ outbox' = <<>>
            /\ UNCHANGED <<queries, students, admins, faqs, session, env>>
            /\ IF email = <<>>
               THEN /\ resp' = Response("Email required", 302)
                    /\ UNCHANGED blocked_emails
               ELSE /\ blocked_emails' = ToggleBlockedEmail(blocked_emails, email)
                    /\ resp' = Response("Guest email block status updated", 302)

\* ------------------------------------------------------- respond to a query
\* Variant: a query that is Resolved keeps that status.
OrStatus_Terminal(a, b) == IF a # "" /\ b # "Resolved" THEN a ELSE b

\* `status or q.status` on the status strings; an absent or empty form field
\* is "".
OrStatus(a, b) == IF a # "" THEN a ELSE b

\* One mail.send call: the recipient, whether the relay took it, and the
\* committed row a reader of the database sees while the call is made (the
\* body quotes its category, message and admin_response).
Mail(to, delivered, stored) == [to |-> to, delivered |-> delivered, stored |-> stored]

\* Variant: a new response text is appended to the stored one.
UpdateFields_Thread(row, status, response_text) ==
    [row EXCEPT !.status = OrStatus(status, @),
                !.response = IF Truthy(response_text) /\ Truthy(@)
                             THEN @ \o response_text
                             ELSE PyOr(response_text, @),
                !.admin_response = IF Truthy(response_text) /\ Truthy(@)
                                   THEN @ \o response_text
                                   ELSE PyOr(response_text, @)]

\* Variant: the form's fields are stored as they come, empty or not.
UpdateFields_Overwrite(row, status, response_text) ==
    [row EXCEPT !.status = status,
                !.response = response_text,
                !.admin_response = response_text]

\* The three assignments update_status commits first.
UpdateFields(row, status, response_text) ==
    [row EXCEPT !.status = OrStatus(status, @),
                !.response = PyOr(response_text, @),
                !.admin_response = PyOr(response_text, @)]

\* Variant: the reply metadata is stored for every query.
IsStudentQuery_Always(row) == TRUE

\* `q.student_id is None` chooses the mail branch, else the in-app branch.
IsStudentQuery(row) == row.student_id # NoneId

\* Variant: a fetch marks only the newest unseen reply.
MarkSeen_NewestOnly(table, sid_int) ==
    LET unseen == {i \in 1..Len(table) :
                      /\ table[i].student_id = sid_int
                      /\ Truthy(table[i].admin_reply_text)
                      /\ ~table[i].admin_reply_seen}
    IN [i \in 1..Len(table) |->
           IF i \in unseen /\ \A j \in unseen : j <= i
           THEN [table[i] EXCEPT !.admin_reply_seen = TRUE]
           ELSE table[i]]

\* Variant: the page lists the queries of every student.
DashboardQueries_All(table, sid_int) == 1..Len(table)

\* Query.query.filter_by(student_id=sid_int).all(), or [] without sid_int:
\* the rows the page is rendered with.
DashboardQueries(table, sid_int) ==
    IF sid_int = NoneId THEN {}
    ELSE {i \in 1..Len(table) : table[i].student_id = sid_int}

\* The loop of student_dashboard over the student's queries, then the commit.
MarkSeen(table, sid_int) ==
    [i \in 1..Len(table) |->
        IF /\ i \in DashboardQueries(table, sid_int)
           /\ Truthy(table[i].admin_reply_text)
           /\ ~table[i].admin_reply_seen
        THEN [table[i] EXCEPT !.admin_reply_seen = TRUE]
        ELSE table[i]]

\* Variant: an exception of mail.send leaves the handler.
SendStatusMail_Propagates(committed, q, send_ok) ==
    IF Truthy(committed[q].email) /\ mail_configured
    THEN [raised |-> ~send_ok, sent |-> <<Mail(committed[q].email, send_ok, committed[q])>>]
    ELSE [raised |-> FALSE, sent |-> <<>>]

\* The guest branch of update_status: one mail.send inside try/except when
\* the row has an email and the mail account is configured; the except
\* clause logs a failure and the handler goes on.
SendStatusMail(committed, q, send_ok) ==
    IF Truthy(committed[q].email) /\ mail_configured
    THEN [raised |-> FALSE, sent |-> <<Mail(committed[q].email, send_ok, committed[q])>>]
    ELSE [raised |-> FALSE, sent |-> <<>>]

\* Variant: a call without a response text leaves the reply metadata alone.
ReplyFields_OnlyNewText(row, response_text, now) ==
    IF ~Truthy(response_text) THEN row
    ELSE [row EXCEPT !.admin_reply_text = Strip(response_text),
                     !.admin_reply_at = now,
                     !.admin_reply_seen = FALSE]

\* The student branch: the reply metadata written after the first commit.
ReplyFields(row, response_text, now) ==
    [row EXCEPT !.admin_reply_text =
                    Strip(PyOr(PyOr(row.admin_response, response_text), <<>>)),
                !.admin_reply_at = now,
                !.admin_reply_seen = FALSE]

\* The row update_status leaves stored for a query it has found.
update_status_row(row, status, response_text, now) ==
    LET updated == UpdateFields(row, status, response_text)
    IN IF IsStudentQuery(updated)
       THEN ReplyFields(updated, response_text, now)
       ELSE updated

update_status(query_id, status, response_text, now, send_ok) ==
    IF ~admin_required THEN RejectAdmin
    ELSE
    LET q == Get(queries, query_id)
    IN /\ UNCHANGED <<students, admins, blocked_emails, faqs, session, env>>
       /\ IF q = NoneId
          THEN /\ resp' = Response("Query not found", 302)
               /\ outbox' = <<>>
               /\ UNCHANGED queries
          ELSE LET row == UpdateFields(queries[q], status, response_text)
                   \* db.session.commit()
                   committed == [queries EXCEPT ![q] = row]
                   email == IF ~IsStudentQuery(row)
                            THEN SendStatusMail(committed, q, send_ok)
                            ELSE [raised |-> FALSE, sent |-> <<>>]
               IN /\ queries' = [queries EXCEPT
                                    ![q] = update_status_row(@, status, response_text, now)]
                  /\ outbox' = email.sent
                  /\ resp' = IF email.raised
                             THEN Response("", 500)
                             ELSE Response("Query updated", 302)

\* send_guest_response_email: building the Message reads query.subject, an
\* attribute the Query model does not have, so for a guest query with an
\* email the call raises AttributeError before mail.send is reached.
send_guest_response_email(table, query_id, response_text) ==
    LET query == Get(table, query_id)
    IN IF /\ query # NoneId
          /\ table[query].student_id = NoneId
          /\ Truthy(table[query].email)
       THEN [raised |-> TRUE, sent |-> <<>>]
       ELSE [raised |-> FALSE, sent |-> <<>>]

admin_reply(query_id, response_text) ==
    IF ~admin_required THEN RejectAdmin
    ELSE
    LET query == Get(queries, query_id)
    IN /\ UNCHANGED <<students, admins, blocked_emails, faqs, session, env>>
       /\ IF query = NoneId
          THEN /\ resp' = Response("Response sent successfully!", 302)
               /\ outbox' = <<>>
               /\ UNCHANGED queries
          ELSE LET committed == [queries EXCEPT ![query].status = "responded",
                                                ![query].response = response_text]
                   email == IF committed[query].student_id = NoneId
                            THEN send_guest_response_email(committed, query_id,
                                                           response_text)
                            ELSE [raised |-> FALSE, sent |-> <<>>]
               IN /\ queries' = committed
                  /\ outbox' = email.sent
                  /\ resp' = IF email.raised
                             THEN Response("", 500)
                             ELSE Response("Response sent successfully!", 302)

\* ---------------------------------------------------------- student_dashboard
student_dashboard ==
    IF ~student_required THEN RejectStudent
    ELSE /\ queries' = MarkSeen(queries, session.student_id)
         /\ resp' = Response("", 200)
         /\ outbox' = <<>>
         /\ UNCHANGED <<students, admins, blocked_emails, faqs, session, env>>

\* ---------------------------------------------------------- mark_query_as_faq
\* Variant: the slice keeps the whole text.
Take_Whole(s, n) == s

\* s[:n]
Take(s, n) == SubSeq(s, 1, IF Len(s) < n THEN Len(s) ELSE n)

mark_query_as_faq(qid) ==
    IF ~admin_required THEN RejectAdmin
    ELSE
    LET q == Get(queries, qid)
    IN /\ outbox' = <<>>
       /\ UNCHANGED <<queries, students, admins, blocked_emails, session, env>>
       /\ IF q = NoneId
          THEN \* get_or_404
               /\ resp' = Response("Not Found", 404)
               /\ UNCHANGED faqs
          ELSE /\ Len(faqs) < MaxFaqs
               /\ faqs' = AddAndCommit(faqs,
                      FAQ(Take(Strip(PyOr(queries[q].message, <<>>)), 1000),
                          PyOr(queries[q].admin_response, PyOr(queries[q].response, NoneT)),
                          NoneT, q))
               /\ resp' = Response("Query added to FAQs", 302)

\* ------------------------------------------------------------- FAQ management
\* POST /admin/faq: a new entry written by an admin.
admin_faq(question, answer) ==
    IF ~admin_required THEN RejectAdmin
    ELSE
    LET q_text == Strip(PyOr(question, <<>>))
        a_text == Strip(PyOr(answer, <<>>))
    IN /\ outbox' = <<>>
       /\ UNCHANGED <<queries, students, admins, blocked_emails, session, env>>
       /\ IF ~Truthy(q_text)
          THEN /\ resp' = Response("Question is required", 200)
               /\ UNCHANGED faqs
          ELSE /\ Len(faqs) < MaxFaqs
               /\ faqs' = AddAndCommit(faqs, FAQ(q_text, PyOr(a_text, NoneT), NoneT, NoneId))
               /\ resp' = Response("FAQ added", 200)

\* Variant: switching an entry off removes its row.
ToggleActive_Delete(table, f) ==
    IF table[f].is_active
    THEN SubSeq(table, 1, f - 1) \o SubSeq(table, f + 1, Len(table))
    ELSE [table EXCEPT ![f].is_active = TRUE]

\* f.is_active = not bool(f.is_active); db.session.commit()
ToggleActive(table, f) == [table EXCEPT ![f].is_active = ~@]

toggle_faq(fid) ==
    IF ~admin_required THEN RejectAdmin
    ELSE
    LET f == Get(faqs, fid)
    IN /\ outbox' = <<>>
       /\ UNCHANGED <<queries, students, admins, blocked_emails, session, env>>
       /\ IF f = NoneId
          THEN /\ resp' = Response("Not Found", 404)
               /\ UNCHANGED faqs
          ELSE /\ faqs' = ToggleActive(faqs, f)
               /\ resp' = Response("", 302)

edit_faq(fid, answer) ==
    IF ~admin_required THEN RejectAdmin
    ELSE
    LET f == Get(faqs, fid)
    IN /\ outbox' = <<>>
       /\ UNCHANGED <<queries, students, admins, blocked_emails, session, env>>
       /\ IF f = NoneId
          THEN /\ resp' = Response("Not Found", 404)
               /\ UNCHANGED faqs
          ELSE /\ faqs' = [faqs EXCEPT
                              ![f].answer = PyOr(Strip(PyOr(answer, <<>>)), NoneT)]
               /\ resp' = Response("FAQ updated", 302)

\* -------------------------------------------- submit_query, statement by statement
\* A call of submit_query between two of its database statements: the form's
\* message and category, and the FAQ entry its look-up loaded.
Submitting(at, message, category, existing_faq, frequency) ==
    [at |-> at, kind |-> "submit_query", raised |-> FALSE, message |-> message,
     category |-> category, existing_faq |-> existing_faq, frequency |-> frequency]

\* The handler up to the commit of the new query.
submit_query_store(p, form) ==
    LET name == PyOr(form.name, form.guest_name)
        email == PyOr(form.email, form.guest_email)
        category == PyOr(form.category, DEFAULT_CATEGORY)
        message == PyOr(form.message, form.guest_query)
        student_fk == session.student_id
    IN /\ requests[p].at = "idle"
       /\ outbox' = <<>>
       /\ UNCHANGED <<students, admins, blocked_emails, faqs, session,
                      mail_configured, schema, boot, log, seeders>>
       /\ IF ~Truthy(name) \/ ~Truthy(email) \/ ~Truthy(message)
          THEN /\ resp' = Response("All fields are required", 302)
               /\ UNCHANGED <<queries, requests>>
          ELSE IF student_fk # NoneId /\ StudentIsBlocked(student_fk)
          THEN /\ resp' = Response("Your account has been blocked", 302)
               /\ UNCHANGED <<queries, requests>>
          ELSE IF student_fk = NoneId /\ EmailIsBlocked(email)
          THEN /\ resp' = Response("This email is blocked from submitting queries", 302)
               /\ UNCHANGED <<queries, requests>>
          ELSE /\ Len(queries) < MaxQueries
               /\ queries' = AddAndCommit(queries,
                                  Query(Strip(name), Strip(email),
                                        IF Truthy(category) THEN Strip(category)
                                                            ELSE NoneT,
                                        Strip(message), student_fk))
               /\ requests' = [requests EXCEPT
                                  ![p] = Submitting("stored", message, category,
                                                    NoneId, 0)]
               /\ UNCHANGED resp

\* FAQ.query.filter_by(question=message.strip(), is_active=True).first(): the
\* entry and the frequency it has when it is loaded.
submit_query_lookup(p) ==
    LET r == requests[p]
        existing_faq ==
            First({f \in Ids(faqs) :
                      faqs[f].question = Strip(r.message) /\ faqs[f].is_active})
    IN /\ r.kind = "submit_query" /\ r.at = "stored"
       /\ requests' = [requests EXCEPT
                          ![p].at = "found",
                          ![p].existing_faq = existing_faq,
                          ![p].frequency = IF existing_faq # NoneId
                                           THEN faqs[existing_faq].frequency ELSE 0]
       /\ UNCHANGED <<db, session, resp, outbox,
                      mail_configured, schema, boot, log, seeders>>

\* `existing_faq.frequency += 1` stores the loaded frequency plus one; without
\* an entry a new one is added.  Then the commit, the flash and the redirect.
submit_query_count(p) ==
    LET r == requests[p]
    IN /\ r.kind = "submit_query" /\ r.at = "found"
       /\ faqs' = IF r.existing_faq # NoneId
                  THEN [faqs EXCEPT ![r.existing_faq].frequency = r.frequency + 1]
                  ELSE AddAndCommit(faqs,
                           FAQ(Strip(r.message), NoneT,
                               IF Truthy(r.category) THEN Strip(r.category) ELSE NoneT,
                               NoneId))
       /\ requests' = [requests EXCEPT ![p] = Idle]
       /\ resp' = Response("Your query has been submitted successfully.", 302)
       /\ outbox' = <<>>
       /\ UNCHANGED <<queries, students, admins, blocked_emails, session,
                      mail_configured, schema, boot, log, seeders>>

\* ------------------------------------------- update_status, statement by statement
\* A call of update_status between two of its database statements: the form
\* fields, the id of the row, the attribute values its session last loaded,
\* the time it stored, and whether no other call has committed since its own
\* latest db.session.commit().
Responding(at, status, response_text, q, loaded) ==
    [at |-> at, kind |-> "update_status", raised |-> FALSE, status |-> status,
     response_text |-> response_text, q |-> q, loaded |-> loaded,
     now |-> NoneId, last |-> FALSE]

\* The UPDATE a commit flushes: the unit of work sets the columns whose
\* attribute differs from the value the session loaded, and leaves the other
\* columns as they are stored.
Flush(stored, loaded, assigned) ==
    [c \in DOMAIN stored |-> IF assigned[c] # loaded[c] THEN assigned[c] ELSE stored[c]]

\* Caller p has committed: it is the latest of the calls in flight to do so.
Committed(p, mine) ==
    [r \in Procs |->
        IF r = p THEN [mine EXCEPT !.last = TRUE]
        ELSE IF requests[r].kind = "update_status"
             THEN [requests[r] EXCEPT !.last = FALSE]
             ELSE requests[r]]

\* Query.query.get(qid) and the `if not q` return.
update_status_select(p, query_id, status, response_text) ==
    /\ requests[p].at = "idle"
    /\ IF ~admin_required THEN RejectAdmin
       ELSE
       LET q == Get(queries, query_id)
       IN /\ UNCHANGED <<db, session, mail_configured, schema, boot, log, seeders>>
          /\ outbox' = <<>>
          /\ IF q = NoneId
             THEN /\ resp' = Response("Query not found", 302)
                  /\ UNCHANGED requests
             ELSE /\ requests' = [requests EXCEPT
                                     ![p] = Responding("loaded", status, response_text,
                                                       q, queries[q])]
                  /\ UNCHANGED resp

\* The three assignments and the first db.session.commit(); the commit
\* expires what the session had loaded.
update_status_commit(p) ==
    LET r == requests[p]
    IN /\ r.kind = "update_status" /\ r.at = "loaded"
       /\ queries' = [queries EXCEPT
                         ![r.q] = Flush(@, r.loaded,
                                        UpdateFields(r.loaded, r.status, r.response_text))]
       /\ requests' = Committed(p, [r EXCEPT !.at = "committed"])
       /\ UNCHANGED <<students, admins, blocked_emails, faqs, session, resp, outbox,
                      mail_configured, schema, boot, log, seeders>>

\* `q.student_id is None` reads the row again; a guest query gets its mail
\* and the handler returns, a student query goes on to the reply metadata.
update_status_refresh(p, send_ok) ==
    LET r == requests[p]
        email == SendStatusMail(queries, r.q, send_ok)
    IN /\ r.kind = "update_status" /\ r.at = "committed"
       /\ UNCHANGED <<db, session, mail_configured, schema, boot, log, seeders>>
       /\ IF ~IsStudentQuery(queries[r.q])
          THEN /\ outbox' = email.sent
               /\ resp' = Response("Query updated", 302)
               /\ requests' = [requests EXCEPT ![p].at = "done",
                                                ![p].loaded = queries[r.q]]
          ELSE /\ requests' = [requests EXCEPT ![p].at = "reloaded",
                                                ![p].loaded = queries[r.q]]
               /\ UNCHANGED <<resp, outbox>>

\* The student branch: the reply metadata from the row as it was read again,
\* and the second db.session.commit().
update_status_reply(p, now) ==
    LET r == requests[p]
    IN /\ r.kind = "update_status" /\ r.at = "reloaded"
       /\ queries' = [queries EXCEPT
                         ![r.q] = Flush(@, r.loaded,
                                        ReplyFields(r.loaded, r.response_text, now))]
       /\ requests' = Committed(p, [r EXCEPT !.at = "done", !.now = now])
       /\ resp' = Response("Query updated", 302)
       /\ outbox' = <<>>
       /\ UNCHANGED <<students, admins, blocked_emails, faqs, session,
                      mail_configured, schema, boot, log, seeders>>

\* ------------------------------------------------------------------ startup
\* fix_admins_table on database d.  autocommit says whether the UPDATE sent
\* on the raw connection outlives conn.close(): the engine either commits a
\* textual UPDATE by itself or rolls it back with the connection, since the
\* commit in the code is on the session.
fix_admins_table_on(d, fail, autocommit) ==
    IF "full_name" \in DOMAIN d.schema.admins THEN d
    ELSE LET r == AlterTableAddColumn(d, "admins", "full_name", NoneT, fail)
         IN IF r.raised THEN Logged(r.d, "Migration failed")
            \* UPDATE admins SET full_name = COALESCE(name, username)
            ELSE IF "name" \notin DOMAIN r.d.schema.admins
            THEN Logged(r.d, "Migration failed")
            ELSE IF ~autocommit THEN r.d
            ELSE LET stored == r.d.rows.admins
                 IN [r.d EXCEPT
                       !.rows.admins =
                           [i \in 1..Len(stored) |->
                               IF stored[i].full_name # NoneT THEN stored[i]
                               ELSE [stored[i] EXCEPT
                                       !.full_name = IF stored[i].name # NoneT
                                                     THEN stored[i].name
                                                     ELSE stored[i].username]]]

\* The default admin of create_tables: the lookup and the insert are outside
\* any try block, so an error leaves create_tables.
EnsureDefaultAdmin(d) ==
    IF SelectRaises(d, "admins") THEN [d |-> d, raised |-> TRUE]
    ELSE IF \E i \in 1..Len(d.rows.admins) : d.rows.admins[i].username = ADMIN
    THEN [d |-> d, raised |-> FALSE]
    ELSE InsertRow(d, "admins", DefaultAdmin)

\* The default student of create_tables: an error leads to create_all and one
\* more attempt, which meets the same error and is logged.
EnsureDefaultStudent(d) ==
    IF SelectRaises(d, "students")
    THEN Logged(create_all(d), "Could not create default student")
    ELSE IF \E i \in 1..Len(d.rows.students) : d.rows.students[i].student_id = STUDENT
    THEN d
    ELSE LET r == InsertRow(d, "students", DefaultStudent)
         IN IF r.raised
            THEN Logged(create_all(r.d), "Could not create default student")
            ELSE r.d

\* create_tables on database d: the database after it, and whether an
\* exception left the function.
create_tables_on(d, fail) ==
    LET created == create_all(d)
        first == IF "student_id" \in DOMAIN created.schema.queries
                 THEN [d |-> created, raised |-> FALSE]
                 ELSE AlterTableAddColumn(created, "queries", "student_id", NoneId, fail)
        optional == AddMissing(first.d, "queries", DOMAIN first.d.schema.queries,
                               <<<<"category", NoneT>>, <<"admin_response", NoneT>>>>,
                               fail)
        altered ==
            IF first.raised
            THEN Logged(first.d, "Error ensuring student_id column exists")
            ELSE IF optional.raised
            THEN Logged(optional.d, "Error ensuring optional query columns exist")
            ELSE optional.d
        admin == EnsureDefaultAdmin(altered)
    IN IF admin.raised THEN admin
       ELSE [d |-> EnsureDefaultStudent(admin.d), raised |-> FALSE]

\* The three try blocks of migrate_additive_schema and its create_all.
MigrateQueries(d, fail, autocommit) ==
    LET cols == DOMAIN d.schema.queries
        r == AddMissing(d, "queries", cols,
                        <<<<"admin_reply_text", NoneT>>, <<"admin_reply_at", NoneId>>,
                          <<"admin_reply_seen", FALSE>>, <<"category", NoneT>>>>,
                        fail)
    IN IF r.raised THEN Logged(r.d, "Migration error for queries columns")
       \* UPDATE queries SET category = 'other' WHERE category IS NULL
       ELSE IF "category" \in cols \/ ~autocommit THEN r.d
       ELSE LET stored == r.d.rows.queries
            IN [r.d EXCEPT
                  !.rows.queries =
                      [i \in 1..Len(stored) |->
                          IF stored[i].category = NoneT
                          THEN [stored[i] EXCEPT !.category = DEFAULT_CATEGORY]
                          ELSE stored[i]]]

\* Variant: the ALTER is issued without reading the live columns first.
MigrateStudents_NoCheck(d, fail) ==
    LET r == AddMissing(d, "students", {}, <<<<"is_blocked", FALSE>>>>, fail)
    IN IF r.raised THEN Logged(r.d, "Migration error for students.is_blocked") ELSE r.d

MigrateStudents(d, fail) ==
    LET r == AddMissing(d, "students", DOMAIN d.schema.students,
                        <<<<"is_blocked", FALSE>>>>, fail)
    IN IF r.raised THEN Logged(r.d, "Migration error for students.is_blocked") ELSE r.d

MigrateAdmins(d, fail) ==
    LET r == AddMissing(d, "admins", DOMAIN d.schema.admins,
                        <<<<"name", NoneT>>, <<"email", NoneT>>, <<"is_active", TRUE>>,
                          <<"is_blocked", FALSE>>, <<"created_at", NoneId>>>>,
                        fail)
    IN IF r.raised THEN Logged(r.d, "Migration error for admins columns") ELSE r.d

migrate_additive_schema_on(d, fail, autocommit) ==
    create_all(MigrateAdmins(MigrateStudents(MigrateQueries(d, fail, autocommit), fail),
                             fail))

\* The database and the log as a startup step leaves them.
Leave(d) ==
    /\ schema' = d.schema
    /\ queries' = d.rows.queries
    /\ admins' = d.rows.admins
    /\ students' = d.rows.students
    /\ blocked_emails' = d.rows.blocked_emails
    /\ faqs' = d.rows.faqs
    /\ log' = [alters |-> d.alters, errors |-> d.errors]

\* The storage refused the statement named by fail.
Refused(d, fail) == \E k \in 1..Len(d.alters) : d.alters[k] = fail

\* Import of app.py: fix_admins_table runs at module level.
fix_admins_table(fail, autocommit) ==
    LET d == fix_admins_table_on(Database, fail, autocommit)
    IN /\ boot.pc = "import"
       /\ Leave(d)
       /\ boot' = [boot EXCEPT !.pc = "create_tables",
                               !.clean = @ /\ ~Refused(d, fail)]
       /\ UNCHANGED <<session, mail_configured, resp, outbox, seeders, requests>>

\* __main__: create_tables(); an exception leaving it ends the process with
\* sys.exit(1) before migrate_additive_schema is called.
create_tables(fail) ==
    LET r == create_tables_on(Database, fail)
    IN /\ boot.pc = "create_tables"
       /\ Leave(IF r.raised THEN Logged(r.d, "Error initializing database") ELSE r.d)
       /\ boot' = [boot EXCEPT !.pc = IF r.raised THEN "exited" ELSE "migrate",
                               !.clean = @ /\ ~Refused(r.d, fail)]
       /\ UNCHANGED <<session, mail_configured, resp, outbox, seeders, requests>>

\* __main__: migrate_additive_schema(), then app.run().
migrate_additive_schema(fail, autocommit) ==
    LET d == migrate_additive_schema_on(Database, fail, autocommit)
    IN /\ boot.pc = "migrate"
       /\ Leave(d)
       /\ boot' = [boot EXCEPT !.pc = "serving",
                               !.clean = @ /\ ~Refused(d, fail)]
       /\ UNCHANGED <<session, mail_configured, resp, outbox, seeders, requests>>

\* Variant: the file is removed at every start.
reset_db_Always(d, RESET_DB) ==
    [d EXCEPT !.schema = [t \in Tables |-> NoTable], !.rows = [t \in Tables |-> <<>>]]

\* The RESET_DB block at the top of app.py: os.remove(db_file) when the
\* variable is '1', which leaves no table and no row; any other value leaves
\* the file alone.
reset_db(d, RESET_DB) ==
    IF RESET_DB = "1"
    THEN [d EXCEPT !.schema = [t \in Tables |-> NoTable],
                   !.rows = [t \in Tables |-> <<>>]]
    ELSE d

\* python app.py once more on the same database file, with the given value
\* of RESET_DB in its environment.  prior records that the run before
\* reached app.run() with no statement refused.
start(RESET_DB) ==
    /\ boot.pc \in {"serving", "exited"}
    /\ boot.runs < MaxRuns
    /\ boot' = [pc |-> "import", runs |-> boot.runs + 1, clean |-> TRUE,
                prior |-> (boot.pc = "serving" /\ boot.clean),
                RESET_DB |-> RESET_DB]
    /\ Leave(reset_db(Database, RESET_DB))
    /\ UNCHANGED <<session, mail_configured, resp, outbox, seeders, requests>>

\* A start with RESET_DB unset.
restart == start("")

\* ------------------------------------------------- reads with a recovery
\* Query.query...all() / Student.query...all() of a page: OperationalError
\* when one of the tables it reads lacks a declared column.
ReadRaises(d, tables) == \E t \in tables : SelectRaises(d, t)

\* Variant: a retry that fails is followed by one more create_tables() and
\* one more read.
Recover_Again(d, tables, fail) ==
    LET once == create_tables_on(Logged(d, "attempting migration"), fail)
        twice == create_tables_on(Logged(once.d, "attempting migration"), fail)
    IN IF ~once.raised /\ ~ReadRaises(once.d, tables) THEN [d |-> once.d, code |-> 200]
       ELSE IF ~twice.raised /\ ~ReadRaises(twice.d, tables)
       THEN [d |-> twice.d, code |-> 200]
       ELSE [d |-> Logged(twice.d, "Migration attempt failed"), code |-> 500]

\* The `except OperationalError` clause of admin_dashboard and view_queries:
\* the error is logged, create_tables() runs, the reads are made once more,
\* and any exception of the two ends the request with the error page.
Recover(d, tables, fail) ==
    LET r == create_tables_on(Logged(d, "attempting migration"), fail)
    IN IF r.raised \/ ReadRaises(r.d, tables)
       THEN [d |-> Logged(r.d, "Migration attempt failed"), code |-> 500]
       ELSE [d |-> r.d, code |-> 200]

\* A page of the admin that reads the given tables.
LoadPage(tables, fail) ==
    IF ~admin_required THEN RejectAdmin
    ELSE LET out == IF ReadRaises(Database, tables)
                    THEN Recover(Database, tables, fail)
                    ELSE [d |-> Database, code |-> 200]
         IN /\ Leave(out.d)
            /\ resp' = Response("", out.code)
            /\ outbox' = <<>>
            /\ UNCHANGED <<session, mail_configured, boot, seeders, requests>>

admin_dashboard(fail) == LoadPage({"queries", "students"}, fail)

view_queries(fail) == LoadPage({"queries"}, fail)

\* ------------------------------------------------------------- seeding step
\* The check-then-insert of a default row, as create_tables and the two login
\* fallbacks run it: a SELECT by the key, then add and commit when the SELECT
\* found nothing.  Other callers may run between the two statements.
SeedKinds == {"create_tables.admin", "create_tables.student", "admin_login",
              "student_login"}

SeedTable(kind) ==
    IF kind \in {"create_tables.admin", "admin_login"} THEN "admins" ELSE "students"

SeedRow(kind) ==
    CASE kind = "create_tables.admin" -> DefaultAdmin
      [] kind = "admin_login" -> FallbackAdmin
      [] OTHER -> DefaultStudent

\* filter_by(username='admin').first() / filter_by(student_id='student').first()
HasDefaultRow(t) ==
    IF t = "admins"
    THEN \E i \in 1..Len(admins) : admins[i].username = ADMIN
    ELSE \E i \in 1..Len(students) : students[i].student_id = STUDENT

seed_check(p, kind) ==
    /\ seeders[p] = Idle
    /\ seeders' = [seeders EXCEPT
                      ![p] = [at |-> IF HasDefaultRow(SeedTable(kind))
                                     THEN "done" ELSE "insert",
                              kind |-> kind, raised |-> FALSE]]
    /\ UNCHANGED <<db, session, mail_configured, resp, outbox, schema, boot, log, requests>>

seed_insert(p) ==
    LET r == InsertRow(Database, SeedTable(seeders[p].kind), SeedRow(seeders[p].kind))
    IN /\ seeders[p].at = "insert"
       /\ admins' = r.d.rows.admins
       /\ students' = r.d.rows.students
       /\ seeders' = [seeders EXCEPT ![p].at = "done", ![p].raised = r.raised]
       /\ UNCHANGED <<queries, blocked_emails, faqs, session, mail_configured, resp,
                      outbox, schema, boot, log, requests>>

\* Whether an exception of the insert leaves the seeding step: the default
\* admin of create_tables is added and committed outside every try block;
\* the default student of create_tables and the two login fallbacks sit in a
\* try whose except clause logs the error.
SeedPropagates(kind) == kind = "create_tables.admin"

\* -------------------------------------------------------- request inputs
StudentLogins == {STUDENT, <<" ">> \o STUDENT_LOCAL}
AdminLogins == {ADMIN, <<" ">> \o ADMIN_LOCAL}
Passwords == {"student123", "admin123"}
BlockInputs == {NoneT, <<" ", "E">>}

\* ---------------------------------------------------------- specification
\* Submission, sessions and the two block lists.
Next ==
    \/ \E form \in Forms : submit_query(form)
    \/ \E e \in StudentLogins, p \in Passwords : student_login(e, p)
    \/ \E e \in AdminLogins : admin_login(e, "admin123")
    \/ logout
    \/ admin_logout
    \/ \E sid \in 1..(Len(students) + 1) : toggle_block_student(sid)
    \/ \E raw \in BlockInputs : toggle_block_guest(raw)

Spec == Init /\ [][Next]_vars

\* Responding and reading replies: one complete form is submitted with or
\* without a student session, admins answer, students open the dashboard.
ReplyForms == {Form(<<"n">>, NoneT, <<"e">>, NoneT, NoneT, <<"m">>, NoneT)}
StatusInputs == {"", "Resolved"}
ResponseInputs == {NoneT, <<"r", " ">>}
Clock == 1..MaxClock

NextRespond ==
    \/ \E form \in ReplyForms : submit_query(form)
    \/ student_login(STUDENT, "student123")
    \/ admin_login(ADMIN_LOCAL, "admin123")
    \/ logout
    \/ \E query_id \in 1..(Len(queries) + 1), status \in StatusInputs,
          response_text \in ResponseInputs, now \in Clock, send_ok \in BOOLEAN :
          update_status(query_id, status, response_text, now, send_ok)
    \/ \E query_id \in 1..(Len(queries) + 1), response_text \in ResponseInputs :
          admin_reply(query_id, response_text)
    \/ student_dashboard

SpecRespond == Init /\ [][NextRespond]_vars

\* Submissions whose FAQ block may fail, answers, and promotion to the FAQ.
FaqForms ==
    {Form(NoneT, <<"n">>, NoneT, <<"e">>, NoneT, <<>>, q) : q \in {<<"k">>, <<"k", " ">>}}

NextFaq ==
    \/ \E form \in FaqForms, faq_error \in BOOLEAN : submit_query_step(form, faq_error)
    \/ admin_login(ADMIN, "admin123")
    \/ \E query_id \in 1..(Len(queries) + 1), send_ok \in BOOLEAN :
          update_status(query_id, "Resolved", <<"r">>, 1, send_ok)
    \/ \E query_id \in 1..(Len(queries) + 1) : admin_reply(query_id, <<"r">>)
    \/ \E qid \in 1..(Len(queries) + 1) : mark_query_as_faq(qid)

SpecFaq == Init /\ [][NextFaq]_vars

\* Triage: admins move guest queries between the status labels.
Statuses == {"Pending", "InProgress", "Responded", "Resolved"}
StatusForms == {Form(NoneT, <<"n">>, NoneT, <<"e">>, NoneT, <<>>, <<"k">>)}

NextStatus ==
    \/ \E form \in StatusForms : submit_query(form)
    \/ admin_login(ADMIN, "admin123")
    \/ admin_logout
    \/ \E query_id \in 1..(Len(queries) + 1), status \in Statuses \cup {""},
          send_ok \in BOOLEAN :
          update_status(query_id, status, NoneT, 1, send_ok)
    \/ \E query_id \in 1..(Len(queries) + 1) : admin_reply(query_id, <<"r">>)

SpecStatus == Init /\ [][NextStatus]_vars

\* Startup on a database file left by an earlier version of the models.
\* Every table is either missing or has the columns it had before a group of
\* columns was added to its model, and holds one row written then.
Restrict(f, cols) == [c \in DOMAIN f \cap cols |-> f[c]]

Without(t, cols) == Restrict(Declared[t], DOMAIN Declared[t] \ cols)

OldQueries ==
    {NoTable, Declared.queries,
     Without("queries", {"student_id", "category", "admin_response",
                         "admin_reply_text", "admin_reply_at", "admin_reply_seen"}),
     Without("queries", {"admin_reply_text", "admin_reply_at", "admin_reply_seen"})}
OldAdmins ==
    {NoTable, Declared.admins, Without("admins", {"full_name"}),
     Restrict(Declared.admins, {"id", "username", "password_hash"})}
OldStudents == {NoTable, Declared.students, Without("students", {"is_blocked"})}

OldSchemas ==
    {[queries |-> q, admins |-> a, students |-> s, blocked_emails |-> o, faqs |-> o2] :
        q \in OldQueries, a \in OldAdmins, s \in OldStudents,
        o \in {NoTable, Declared.blocked_emails}, o2 \in {NoTable, Declared.faqs}}

\* The row an old table holds: the columns it has, of a row written then.
OldRows(columns, row) ==
    IF DOMAIN columns = {} THEN <<>> ELSE <<Restrict(row, DOMAIN columns)>>

OLD == <<"o", "l", "d">>

InitSchema ==
    /\ schema \in OldSchemas
    /\ queries = OldRows(schema.queries, Query(OLD, OLD, NoneT, OLD, NoneId))
    /\ admins = OldRows(schema.admins, DefaultAdmin)
    /\ students = OldRows(schema.students, DefaultStudent)
    /\ blocked_emails = OldRows(schema.blocked_emails, BlockedEmail(OLD))
    /\ faqs = OldRows(schema.faqs, FAQ(OLD, NoneT, NoneT, NoneId))
    /\ session = EmptySession
    /\ mail_configured = FALSE
    /\ resp = Response("", 0)
    /\ outbox = <<>>
    /\ boot = [pc |-> "import", runs |-> 1, clean |-> TRUE, prior |-> FALSE,
               RESET_DB |-> ""]
    /\ log = NoLog
    /\ seeders = [p \in Procs |-> Idle]
    /\ requests = [p \in Procs |-> Idle]

\* The ALTER statements the storage may refuse, one per startup step.
Failures ==
    {NoFailure}
    \cup {<<"queries", c>> : c \in {"student_id", "category", "admin_response",
                                     "admin_reply_text", "admin_reply_at",
                                     "admin_reply_seen"}}
    \cup {<<"students", "is_blocked">>}
    \cup {<<"admins", c>> : c \in {"full_name", "name", "email", "is_active",
                                    "is_blocked", "created_at"}}

NextSchema ==
    \/ \E fail \in Failures, autocommit \in BOOLEAN : fix_admins_table(fail, autocommit)
    \/ \E fail \in Failures : create_tables(fail)
    \/ \E fail \in Failures, autocommit \in BOOLEAN :
          migrate_additive_schema(fail, autocommit)
    \/ restart

SpecSchema == InitSchema /\ [][NextSchema]_vars

\* Seeding by several callers at once on a database whose tables db.create_all()
\* has just created: startup is between create_all and its seeding while
\* login requests arrive.
InitSeed ==
    /\ queries = <<>>
    /\ students = <<>>
    /\ admins = <<>>
    /\ blocked_emails = <<>>
    /\ faqs = <<>>
    /\ session = EmptySession
    /\ mail_configured = FALSE
    /\ resp = Response("", 0)
    /\ outbox = <<>>
    /\ schema = Declared
    /\ boot = [pc |-> "create_tables", runs |-> 1, clean |-> TRUE, prior |-> FALSE,
               RESET_DB |-> ""]
    /\ log = NoLog
    /\ seeders = [p \in Procs |-> Idle]
    /\ requests = [p \in Procs |-> Idle]

NextSeed ==
    \/ \E p \in Procs, kind \in SeedKinds : seed_check(p, kind)
    \/ \E p \in Procs : seed_insert(p)

SpecSeed == InitSeed /\ [][NextSeed]_vars

\* The seeded database of a process that has no mail account configured
\* (MAIL_USERNAME and MAIL_PASSWORD unset, the default).
InitQuiet == Init /\ ~mail_configured

\* Curation of the FAQ: guests submit, admins write entries, switch them on
\* and off, edit answers and promote queries.
CurateForms == {Form(NoneT, <<"n">>, NoneT, <<"e">>, NoneT, <<>>, <<"k">>)}

NextCurate ==
    \/ \E form \in CurateForms, faq_error \in BOOLEAN : submit_query_step(form, faq_error)
    \/ admin_login(ADMIN, "admin123")
    \/ \E question \in {NoneT, <<"k", " ">>} : admin_faq(question, <<>>)
    \/ \E fid \in 1..(Len(faqs) + 1) : toggle_faq(fid)
    \/ \E fid \in 1..(Len(faqs) + 1) : edit_faq(fid, <<"a", " ">>)
    \/ \E qid \in 1..(Len(queries) + 1) : mark_query_as_faq(qid)

SpecCurate == InitQuiet /\ [][NextCurate]_vars

\* Promotion: guests submit a short and a long question, admins answer through
\* both respond routes and promote queries to the FAQ.
PromoteForms ==
    {Form(NoneT, <<"n">>, NoneT, <<"e">>, NoneT, <<>>, q) :
        q \in {<<"k">>, [i \in 1..1001 |-> "m"]}}

NextPromote ==
    \/ \E form \in PromoteForms : submit_query(form)
    \/ admin_login(ADMIN, "admin123")
    \/ \E query_id \in 1..(Len(queries) + 1) :
          update_status(query_id, "Resolved", <<"a">>, 1, TRUE)
    \/ \E query_id \in 1..(Len(queries) + 1), response_text \in {<<>>, <<"b">>} :
          admin_reply(query_id, response_text)
    \/ \E qid \in 1..(Len(queries) + 1) : mark_query_as_faq(qid)

SpecPromote == InitQuiet /\ [][NextPromote]_vars

\* The guest block list: admins toggle addresses typed in several ways while
\* guests submit.
BlockForms == {Form(NoneT, <<"n">>, NoneT, e, NoneT, <<>>, <<"k">>) : e \in {<<"e">>, <<"f">>}}
GuestAddresses == {NoneT, <<" ">>, <<" ", "E">>, <<"e">>, <<"f", " ">>}

NextBlock ==
    \/ \E form \in BlockForms : submit_query(form)
    \/ admin_login(ADMIN, "admin123")
    \/ admin_logout
    \/ \E raw \in GuestAddresses : toggle_block_guest(raw)

SpecBlock == InitQuiet /\ [][NextBlock]_vars

\* The seeded database of a process that has a mail account configured.
InitMail == Init /\ mail_configured

\* Access: every admin-only route and the student dashboard, called with and
\* without the session they ask for.  Admins write the first FAQ entry and
\* promote a query while the FAQ is short.
NextAccess ==
    \/ \E form \in ReplyForms : submit_query(form)
    \/ student_login(STUDENT, "student123")
    \/ admin_login(ADMIN_LOCAL, "admin123")
    \/ logout
    \/ update_status(1, "Resolved", <<"r">>, 1, TRUE)
    \/ admin_reply(1, <<"b">>)
    \/ toggle_block_student(1)
    \/ toggle_block_guest(<<"e">>)
    \/ ((session.admin_logged_in => faqs = <<>>) /\ admin_faq(<<"k">>, <<>>))
    \/ toggle_faq(1)
    \/ edit_faq(1, <<"a">>)
    \/ ((session.admin_logged_in => Len(faqs) < 2) /\ mark_query_as_faq(1))
    \/ student_dashboard

SpecAccess == InitMail /\ [][NextAccess]_vars

\* Sign-up: several callers are inside /student_signup and /register at once
\* while the default student is seeded, on tables db.create_all() has just
\* created.
STRONG == <<"e", "E", "1", "@", "e", "e", "e", "e">>
SignupForms ==
    {SignupForm(<<"E">>, <<"E", "@", "e", ".", "e", "e">>, STRONG, STRONG),
     SignupForm(<<"E">>, <<"e", "@", "e", ".", "e", "e">>, STRONG, <<"e">>)}
RegisterForms ==
    {SignupForm(<<"e", " ", "f">>, <<"e", "@", "e", ".", "e", "e", " ">>, <<"p">>, NoneT),
     SignupForm(STUDENT, <<"f">>, <<"p">>, NoneT)}

\* Two callers sign up while a third logs in as 'student'.
NextSignup ==
    \/ \E p \in {1, 2}, form \in SignupForms : signup_begin(p, "student_signup", form)
    \/ \E p \in {1, 2}, form \in RegisterForms : signup_begin(p, "register", form)
    \/ \E p \in {1, 2} : signup_pick(p)
    \/ \E p \in {1, 2} : signup_insert(p)
    \/ seed_check(MaxProcs, "student_login")
    \/ seed_insert(MaxProcs)

SpecSignup == InitSeed /\ [][NextSignup]_vars

\* The life of the rows: the process serves requests that write queries,
\* students and faqs, and is started again with or without RESET_DB=1.
LifeForms == {Form(NoneT, <<"n">>, NoneT, <<"e">>, NoneT, <<>>, <<"k">>)}
LifeSignups == {SignupForm(<<"E">>, <<"E", "@", "e", ".", "e", "e">>, STRONG, STRONG)}

NextLife ==
    \/ \E RESET_DB \in {"", "1"} : start(RESET_DB)
    \/ fix_admins_table(NoFailure, TRUE)
    \/ create_tables(NoFailure)
    \/ migrate_additive_schema(NoFailure, TRUE)
    \/ boot.pc = "serving" /\ \E form \in LifeForms : submit_query(form)
    \/ boot.pc = "serving" /\ admin_login(ADMIN, "admin123")
    \/ boot.pc = "serving" /\ update_status(1, "Resolved", <<"r">>, 1, TRUE)
    \/ boot.pc = "serving" /\ \E form \in LifeSignups : signup_begin(1, "student_signup", form)
    \/ boot.pc = "serving" /\ signup_pick(1)
    \/ boot.pc = "serving" /\ signup_insert(1)
    \/ boot.pc = "serving" /\ student_reset_password(1, STRONG, STRONG)
    \/ boot.pc = "serving" /\ toggle_block_student(1)
    \/ boot.pc = "serving" /\ toggle_faq(1)
    \/ boot.pc = "serving" /\ edit_faq(1, <<"a">>)
    \/ boot.pc = "serving" /\ mark_query_as_faq(1)

SpecLife == InitQuiet /\ [][NextLife]_vars

\* Two admins answer the same query at the same time: caller 1 sets it to
\* Resolved with the text "a", caller 2 to Closed with the text "b".
Responders == {1, 2}
RespondStatus(p) == IF p = 1 THEN "Resolved" ELSE "Closed"
RespondText(p) == IF p = 1 THEN <<"a">> ELSE <<"b">>

NextRace ==
    \/ \E form \in ReplyForms : submit_query(form)
    \/ student_login(STUDENT, "student123")
    \/ admin_login(ADMIN, "admin123")
    \/ \E p \in Responders, query_id \in 1..(Len(queries) + 1) :
          update_status_select(p, query_id, RespondStatus(p), RespondText(p))
    \/ \E p \in Responders : update_status_commit(p)
    \/ \E p \in Responders, send_ok \in BOOLEAN : update_status_refresh(p, send_ok)
    \/ \E p \in Responders, now \in 1..(MaxClock + 1) : update_status_reply(p, now)

SpecRace == InitMail /\ [][NextRace]_vars

\* Guests send the same question at the same time, typed with and without a
\* trailing blank, or leave the message out.
CrowdForms ==
    {Form(NoneT, <<"n">>, NoneT, <<"e">>, NoneT, <<>>, q) :
        q \in {<<"k">>, <<"k", " ">>, <<>>}}

NextCrowd ==
    \/ \E p \in Procs, form \in CrowdForms : submit_query_store(p, form)
    \/ \E p \in Procs : submit_query_lookup(p)
    \/ \E p \in Procs : submit_query_count(p)

SpecCrowd == Init /\ [][NextCrowd]_vars

\* Pages of the admin on a database that the startup has left with columns
\* missing.
NextRecover ==
    \/ \E fail \in Failures : fix_admins_table(fail, TRUE)
    \/ \E fail \in Failures : create_tables(fail)
    \/ \E fail \in Failures : migrate_additive_schema(fail, TRUE)
    \/ boot.pc = "serving" /\ admin_login(ADMIN, "admin123")
    \/ boot.pc = "serving" /\ \E fail \in Failures : admin_dashboard(fail)
    \/ boot.pc = "serving" /\ \E fail \in Failures : view_queries(fail)

SpecRecover == InitSchema /\ [][NextRecover]_vars

\* Guests ask two questions, one of them also typed with a trailing blank,
\* with and without a category, while the admin switches entries off and on.
AggregateForms ==
    {Form(NoneT, <<"n">>, NoneT, <<"e">>, c, <<>>, q) :
        c \in {NoneT, <<"c", " ">>}, q \in {<<"k">>, <<"k", " ">>, <<"m">>}}

NextAggregate ==
    \/ \E form \in AggregateForms : submit_query(form)
    \/ admin_login(ADMIN, "admin123")
    \/ \E fid \in 1..(Len(faqs) + 1) : toggle_faq(fid)

SpecAggregate == InitQuiet /\ [][NextAggregate]_vars

\* Students sign up, log in and submit while the process is started again
\* with or without RESET_DB=1; the browser keeps its session cookie, which
\* app.secret_key signs with the same key in every process.
NextCookie ==
    \/ \E RESET_DB \in {"", "1"} : start(RESET_DB)
    \/ fix_admins_table(NoFailure, TRUE)
    \/ create_tables(NoFailure)
    \/ migrate_additive_schema(NoFailure, TRUE)
    \/ boot.pc = "serving" /\ \E form \in LifeSignups : signup_begin(1, "student_signup", form)
    \/ boot.pc = "serving" /\ signup_pick(1)
    \/ boot.pc = "serving" /\ signup_insert(1)
    \/ boot.pc = "serving" /\ student_login(<<"e", "@", "e", ".", "e", "e">>, STRONG)
    \/ boot.pc = "serving" /\ student_login(STUDENT, "student123")
    \/ boot.pc = "serving" /\ logout
    \/ boot.pc = "serving" /\ \E form \in ReplyForms : submit_query(form)

SpecCookie == InitQuiet /\ [][NextCookie]_vars

\* Guests and the default student post forms whose fields are filled in,
\* hold one blank, or are empty.
BlankInputs == {<<"n">>, <<" ">>, <<>>}
BlankForms ==
    {Form(NoneT, n, NoneT, e, NoneT, <<>>, q) :
        n \in BlankInputs, e \in BlankInputs, q \in BlankInputs}

NextBlank ==
    \/ \E form \in BlankForms : submit_query(form)
    \/ student_login(STUDENT, "student123")
    \/ logout

SpecBlank == InitQuiet /\ [][NextBlank]_vars

\* Two students: the default one and one who signs up.  Each logs in, asks,
\* and opens the dashboard after the admin has answered.
NextDash ==
    \/ \E form \in LifeSignups : signup_begin(1, "student_signup", form)
    \/ signup_pick(1)
    \/ signup_insert(1)
    \/ student_login(STUDENT, "student123")
    \/ student_login(<<"e", "@", "e", ".", "e", "e">>, STRONG)
    \/ logout
    \/ \E form \in ReplyForms : submit_query(form)
    \/ admin_login(ADMIN, "admin123")
    \/ \E query_id \in 1..MaxQueries : update_status(query_id, "Resolved", <<"r">>, 1, TRUE)
    \/ student_dashboard

SpecDash == InitQuiet /\ [][NextDash]_vars

\* ================================================================= claims
\* A form field that was not posted or was posted empty.
Absent(t) == t = NoneT \/ t = <<>>

\* The value the handler works with when a field has a guest fallback.
Posted(a, b) == IF Absent(a) THEN b ELSE a

FormName(form) == Posted(form.name, form.guest_name)
FormEmail(form) == Posted(form.email, form.guest_email)
FormMessage(form) == Posted(form.message, form.guest_query)

Incomplete(form) ==
    Absent(FormName(form)) \/ Absent(FormEmail(form)) \/ Absent(FormMessage(form))

Accepted == "Your query has been submitted successfully."

QueryIds == 1..Len(queries)
FaqIds == 1..Len(faqs)

\* The submission wrote nothing to queries or faqs.
WroteNothing == queries' = queries /\ faqs' = faqs

C2_BlockedEmailRejected ==
    [][\A form \in Forms :
          (submit_query(form) /\ session.student_id = NoneId /\ ~Absent(FormEmail(form)))
          => LET address == Lower(Strip(FormEmail(form)))
                 entries == {b \in 1..Len(blocked_emails) :
                                blocked_emails[b].email = address}
             IN /\ (\E b \in entries : blocked_emails[b].is_active)
                   => /\ WroteNothing
                      /\ resp'.flash # Accepted
                /\ (entries # {} /\ ~Incomplete(form)
                      /\ \A b \in entries : ~blocked_emails[b].is_active)
                   => /\ resp'.flash = Accepted
                      /\ Len(queries') = Len(queries) + 1]_vars

\* A guest submission was turned away because of the block list.
C2_Witness ==
    /\ resp.flash = "This email is blocked from submitting queries"
    /\ session.student_id = NoneId
    /\ \E b \in 1..Len(blocked_emails) : blocked_emails[b].is_active

\* C3: a submission under the session of a student whose is_blocked is true
\* at that moment is rejected and writes nothing, whenever the login happened.
C3_BlockedStudentRejected ==
    [][\A form \in Forms :
          (/\ submit_query(form)
           /\ session.student_id \in 1..Len(students)
           /\ students[session.student_id].is_blocked)
          => /\ WroteNothing
             /\ resp'.flash # Accepted]_vars

\* A student who logged in, was blocked afterwards, and then submitted.
C3_Witness ==
    /\ session.student_logged_in
    /\ session.student_id \in 1..Len(students)
    /\ students[session.student_id].is_blocked
    /\ resp = Response("Your account has been blocked", 302)

\* C7: an accepted submission appends exactly one row, with status Pending,
\* leaves the stored rows as they were, and the row has no student when the
\* session has none.
C7_AcceptedSubmitAddsOneRow ==
    [][\A form \in Forms :
          (submit_query(form) /\ resp'.flash = Accepted)
          => /\ Len(queries') = Len(queries) + 1
             /\ SubSeq(queries', 1, Len(queries)) = queries
             /\ queries'[Len(queries')].status = "Pending"
             /\ queries'[Len(queries')].message = Strip(FormMessage(form))
             /\ session.student_id = NoneId
                   => queries'[Len(queries')].student_id = NoneId]_vars

\* Two accepted guest submissions with identical fields are two rows.
C7_Witness ==
    /\ Len(queries) = 2
    /\ queries[1] = queries[2]
    /\ queries[2].student_id = NoneId
    /\ resp.flash = Accepted

\* C8: a submission with name, email or message missing gets the validation
\* error and writes nothing to queries or faqs.
C8_IncompleteSubmitRejected ==
    [][\A form \in Forms :
          (submit_query(form) /\ Incomplete(form))
          => /\ WroteNothing
             /\ resp' = Response("All fields are required", 302)]_vars

\* The validation error was given while rows were already stored.
C8_Witness ==
    /\ resp.flash = "All fields are required"
    /\ Len(queries) >= 1
    /\ Len(faqs) >= 1

\* ------------------------------------------------ claims on SpecRespond
Triple(row) == <<row.admin_reply_text, row.admin_reply_at, row.admin_reply_seen>>

IsGuest(row) == row.student_id = NoneId

\* C4: update_status and admin_reply on a query without a student leave its
\* admin_reply_text, admin_reply_at and admin_reply_seen alone, and on a query
\* with a student they make no mail.send call.
C4_GuestAndStudentBranches ==
    [][session.admin_logged_in =>
         /\ \A query_id \in QueryIds, status \in StatusInputs,
              response_text \in ResponseInputs, now \in Clock, send_ok \in BOOLEAN :
              update_status(query_id, status, response_text, now, send_ok)
              => IF IsGuest(queries[query_id])
                 THEN Triple(queries'[query_id]) = Triple(queries[query_id])
                 ELSE outbox' = <<>>
         /\ \A query_id \in QueryIds, response_text \in ResponseInputs :
              admin_reply(query_id, response_text)
              => IF IsGuest(queries[query_id])
                 THEN Triple(queries'[query_id]) = Triple(queries[query_id])
                 ELSE outbox' = <<>>]_vars

\* A guest query was answered by mail and its reply triple is still unset,
\* next to a student query that was answered in the application.
C4_Witness ==
    /\ resp.flash = "Query updated"
    /\ Len(outbox) = 1
    /\ \E i \in QueryIds :
          /\ outbox[1].stored = queries[i]
          /\ IsGuest(queries[i])
          /\ Truthy(queries[i].admin_response)
          /\ Triple(queries[i]) = <<NoneT, NoneId, FALSE>>
    /\ \E j \in QueryIds : ~IsGuest(queries[j]) /\ Truthy(queries[j].admin_reply_text)

\* C5: after either respond entry point has stored a response text on a
\* query with a student, admin_reply_text is that text (trimmed) and
\* admin_reply_seen is false.
C5_StudentReplyStored ==
    [][session.admin_logged_in =>
         /\ \A query_id \in QueryIds, status \in StatusInputs,
              response_text \in ResponseInputs, now \in Clock, send_ok \in BOOLEAN :
              (/\ update_status(query_id, status, response_text, now, send_ok)
               /\ ~IsGuest(queries[query_id]) /\ ~Absent(response_text))
              => /\ queries'[query_id].admin_reply_text = Strip(response_text)
                 /\ ~queries'[query_id].admin_reply_seen
         /\ \A query_id \in QueryIds, response_text \in ResponseInputs :
              (/\ admin_reply(query_id, response_text)
               /\ ~IsGuest(queries[query_id]) /\ ~Absent(response_text))
              => /\ queries'[query_id].admin_reply_text = Strip(response_text)
                 /\ ~queries'[query_id].admin_reply_seen]_vars

\* The queries of the student of the session that count as unread replies.
OwnedBySession(i) ==
    session.student_id # NoneId /\ queries[i].student_id = session.student_id

\* C6 as stated: a dashboard fetch flips admin_reply_seen on every query of
\* the student whose admin_reply_text is set (not None) and unseen.
C6_SetRepliesSeen ==
    [][(session.student_logged_in /\ student_dashboard)
         => \A i \in QueryIds :
               (/\ OwnedBySession(i)
                /\ queries[i].admin_reply_text # NoneT
                /\ ~queries[i].admin_reply_seen)
               => queries'[i].admin_reply_seen]_vars

\* C6 amended: a dashboard fetch flips, in its one commit, admin_reply_seen on
\* every query of the student whose admin_reply_text is a non-empty text and
\* unseen.
C6_NonEmptyRepliesSeen ==
    [][(session.student_logged_in /\ student_dashboard)
         => \A i \in QueryIds :
               (/\ OwnedBySession(i)
                /\ ~Absent(queries[i].admin_reply_text)
                /\ ~queries[i].admin_reply_seen)
               => queries'[i].admin_reply_seen]_vars

\* The dashboard was fetched and both replies of the student are seen.
C6_Witness ==
    /\ resp = Response("", 200)
    /\ Len(queries) = 2
    /\ \A i \in QueryIds :
          /\ OwnedBySession(i)
          /\ ~Absent(queries[i].admin_reply_text)
          /\ queries[i].admin_reply_seen

\* C9: after either respond entry point with a response text, response and
\* admin_response both hold that text, and after update_status with a status
\* the row has that status.
C9_BothResponseFieldsSet ==
    [][session.admin_logged_in =>
         /\ \A query_id \in QueryIds, status \in StatusInputs,
              response_text \in ResponseInputs, now \in Clock, send_ok \in BOOLEAN :
              (/\ update_status(query_id, status, response_text, now, send_ok)
               /\ status # "" /\ ~Absent(response_text))
              => /\ queries'[query_id].status = status
                 /\ queries'[query_id].response = response_text
                 /\ queries'[query_id].admin_response = response_text
         /\ \A query_id \in QueryIds, response_text \in ResponseInputs :
              (admin_reply(query_id, response_text) /\ ~Absent(response_text))
              => /\ queries'[query_id].response = response_text
                 /\ queries'[query_id].admin_response = response_text]_vars

\* The row update_status has to leave committed.
Updated(row, status, response_text) ==
    [row EXCEPT !.status = IF status = "" THEN @ ELSE status,
                !.response = IF Absent(response_text) THEN @ ELSE response_text,
                !.admin_response = IF Absent(response_text) THEN @ ELSE response_text]

\* C10: on a guest query the update is already committed when mail.send is
\* called, a failed send leaves the committed row as updated and the request
\* still answers "Query updated"; admin_reply keeps its committed status and
\* response whatever its mail step does.
C10_CommitBeforeSend ==
    [][session.admin_logged_in =>
         /\ \A query_id \in QueryIds, status \in StatusInputs,
              response_text \in ResponseInputs, now \in Clock, send_ok \in BOOLEAN :
              (/\ update_status(query_id, status, response_text, now, send_ok)
               /\ IsGuest(queries[query_id]))
              => /\ queries'[query_id] = Updated(queries[query_id], status, response_text)
                 /\ \A k \in 1..Len(outbox') : outbox'[k].stored = queries'[query_id]
                 /\ resp' = Response("Query updated", 302)
         /\ \A query_id \in QueryIds, response_text \in ResponseInputs :
              (admin_reply(query_id, response_text) /\ IsGuest(queries[query_id]))
              => /\ queries'[query_id].status = "responded"
                 /\ queries'[query_id].response = response_text
                 /\ \A k \in 1..Len(outbox') : outbox'[k].stored = queries'[query_id]]_vars

\* The relay refused the mail, the row holds the new status and response, and
\* the admin was told "Query updated".
C10_Witness ==
    /\ resp = Response("Query updated", 302)
    /\ Len(outbox) = 1
    /\ ~outbox[1].delivered
    /\ \E i \in QueryIds :
          /\ IsGuest(queries[i])
          /\ outbox[1].stored = queries[i]
          /\ queries[i].status = "Resolved"
          /\ queries[i].response = <<"r", " ">>
          /\ queries[i].admin_response = <<"r", " ">>

\* ----------------------------------------------------- claims on SpecFaq
\* The sender of the form is on a block list.
SenderBlocked(form) ==
    IF session.student_id # NoneId
    THEN session.student_id \in 1..Len(students) /\ students[session.student_id].is_blocked
    ELSE \E b \in 1..Len(blocked_emails) :
            /\ blocked_emails[b].email = Lower(Strip(FormEmail(form)))
            /\ blocked_emails[b].is_active

\* C11: a complete submission from a sender that is not blocked stores its
\* Query row whether or not the FAQ block fails; when the FAQ block fails the
\* faqs table is as before the request, the stored queries are the old rows
\* plus the new one, and the response is the success message.
C11_FaqFailureKeepsQuery ==
    [][\A form \in FaqForms, faq_error \in BOOLEAN :
          (submit_query_step(form, faq_error) /\ ~Incomplete(form) /\ ~SenderBlocked(form))
          => /\ Len(queries') = Len(queries) + 1
             /\ SubSeq(queries', 1, Len(queries)) = queries
             /\ queries'[Len(queries')].message = Strip(FormMessage(form))
             /\ resp'.flash = Accepted
             /\ faq_error => faqs' = faqs
             /\ ~faq_error => faqs' # faqs]_vars

\* A submission was reported successful and is stored, and aggregation has
\* left no FAQ row for it.
C11_Witness ==
    /\ resp.flash = Accepted
    /\ Len(queries) >= 1
    /\ \A j \in FaqIds : faqs[j].question # queries[Len(queries)].message

\* The response tells the caller that the query does not exist.
NotFound(r) == r.code = 404 \/ r.flash = "Query not found"

\* C14: update_status, admin_reply and mark_query_as_faq on an id that no
\* query has answer "not found", change no Query or FAQ row and make no
\* mail.send call.
C14_MissingIdNotFound ==
    [][session.admin_logged_in =>
         \A query_id \in {Len(queries) + 1} :
            (\/ \E send_ok \in BOOLEAN :
                   update_status(query_id, "Resolved", <<"r">>, 1, send_ok)
             \/ admin_reply(query_id, <<"r">>)
             \/ mark_query_as_faq(query_id))
            => /\ NotFound(resp')
               /\ queries' = queries
               /\ faqs' = faqs
               /\ outbox' = <<>>]_vars

\* ------------------------------------------------ claims on SpecRespond
\* The fields of a query that a repeated response is compared on.
StoredReply(row) ==
    <<row.status, row.response, row.admin_response, row.admin_reply_text,
      row.admin_reply_seen>>

\* C12: after update_status has answered a query, applying update_status to
\* the stored row once more with the same status and response text, at any
\* later clock reading, gives the same status, response, admin_response,
\* admin_reply_text and admin_reply_seen.
C12_SecondUpdateSameFields ==
    [][session.admin_logged_in =>
         \A query_id \in QueryIds, status \in StatusInputs,
           response_text \in ResponseInputs, now \in Clock, send_ok \in BOOLEAN :
           update_status(query_id, status, response_text, now, send_ok)
           => \A later \in Clock :
                 StoredReply(update_status_row(queries'[query_id], status,
                                               response_text, later))
                   = StoredReply(queries'[query_id])]_vars

\* A student query and a guest query both hold an answer given through
\* update_status.
C12_Witness ==
    /\ resp.flash = "Query updated"
    /\ \E i \in QueryIds :
          /\ ~IsGuest(queries[i])
          /\ queries[i].status = "Resolved"
          /\ queries[i].admin_reply_text = <<"r">>
          /\ queries[i].admin_response = <<"r", " ">>
    /\ \E j \in QueryIds :
          /\ IsGuest(queries[j])
          /\ queries[j].status = "Resolved"
          /\ queries[j].response = <<"r", " ">>

\* C13: with the mail account configured, every update_status and every
\* admin_reply on an existing guest query makes exactly one mail.send call.
C13_GuestRespondSendsOnce ==
    [][(session.admin_logged_in /\ mail_configured) =>
         /\ \A query_id \in QueryIds, status \in StatusInputs,
              response_text \in ResponseInputs, now \in Clock, send_ok \in BOOLEAN :
              (/\ update_status(query_id, status, response_text, now, send_ok)
               /\ IsGuest(queries[query_id]))
              => Len(outbox') = 1
         /\ \A query_id \in QueryIds, response_text \in ResponseInputs :
              (admin_reply(query_id, response_text) /\ IsGuest(queries[query_id]))
              => Len(outbox') = 1]_vars

\* ------------------------------------------------- claims on SpecStatus
\* C15: update_status by a logged-in admin with any of the four status
\* labels, on a query in any status, leaves the query with that label and
\* answers "Query updated".
C15_AnyStatusFromAnyStatus ==
    [][session.admin_logged_in =>
         \A query_id \in QueryIds, status \in Statuses, send_ok \in BOOLEAN :
            update_status(query_id, status, NoneT, 1, send_ok)
            => /\ queries'[query_id].status = status
               /\ resp' = Response("Query updated", 302)]_vars

\* One query was moved to Pending again after an answer, next to one that
\* is Resolved.
C15_Witness ==
    /\ resp = Response("Query updated", 302)
    /\ Len(queries) = 2
    /\ queries[1].status = "Pending"
    /\ queries[1].response = <<"r">>
    /\ queries[2].status = "Resolved"

\* ------------------------------------------------- claims on SpecSchema
\* A step of the startup sequence with the given refused statement.
Reconcile(fail, autocommit) ==
    \/ fix_admins_table(fail, autocommit)
    \/ create_tables(fail)
    \/ migrate_additive_schema(fail, autocommit)

C17_AdditiveOnly ==
    [][(\E fail \in Failures, autocommit \in BOOLEAN : Reconcile(fail, autocommit))
          => \A t \in Tables :
                /\ \A c \in DOMAIN schema[t] :
                      c \in DOMAIN schema'[t] /\ schema'[t][c] = schema[t][c]
                /\ Len(Database'.rows[t]) >= Len(Database.rows[t])
                /\ \A i \in 1..Len(Database.rows[t]) :
                      \A c \in DOMAIN Database.rows[t][i] :
                         /\ c \in DOMAIN Database'.rows[t][i]
                         /\ Database'.rows[t][i][c] = Database.rows[t][i][c]]_vars

\* migrate_additive_schema has added the reply columns to a queries table
\* that holds an old row, and the row is as it was.
C17_Witness ==
    /\ boot.pc = "serving"
    /\ \E k \in 1..Len(log.alters) : log.alters[k] = <<"queries", "admin_reply_text">>
    /\ Len(queries) = 1
    /\ queries[1].name = OLD
    /\ queries[1].message = OLD
    /\ queries[1].admin_reply_seen = FALSE

\* C19: when a start of the process has ended, in app.run() or in
\* sys.exit(1), with no statement refused, every declared table exists with
\* every declared column.
C19_RunCompletesSchema ==
    (boot.pc \in {"serving", "exited"} /\ boot.clean)
    => \A t \in Tables : DOMAIN Declared[t] \subseteq DOMAIN schema[t]

\* The columns create_tables and migrate_additive_schema add when missing.
CreateTablesColumns ==
    {<<"queries", c>> : c \in {"student_id", "category", "admin_response"}}
MigrateColumns ==
    {<<"queries", c>> : c \in {"admin_reply_text", "admin_reply_at",
                               "admin_reply_seen", "category"}}
    \cup {<<"students", "is_blocked">>}
    \cup {<<"admins", c>> : c \in {"name", "email", "is_active", "is_blocked",
                                    "created_at"}}

\* The column is missing from a table that exists.
Lacks(tc) == DOMAIN schema[tc[1]] # {} /\ tc[2] \notin DOMAIN schema[tc[1]]

\* C20: when one ADD COLUMN is refused, create_tables and
\* migrate_additive_schema still attempt every other column they add that
\* was missing, and every column whose ALTER went through is in the schema
\* afterwards.
C20_FailureSkipsNothing ==
    [][\A fail \in Failures \ {NoFailure}, autocommit \in BOOLEAN :
          /\ create_tables(fail)
             => \A tc \in CreateTablesColumns :
                   Lacks(tc) => \E k \in 1..Len(log'.alters) : log'.alters[k] = tc
          /\ migrate_additive_schema(fail, autocommit)
             => \A tc \in MigrateColumns :
                   Lacks(tc) => \E k \in 1..Len(log'.alters) : log'.alters[k] = tc
          /\ Reconcile(fail, autocommit)
             => \A k \in 1..Len(log'.alters) :
                   (log'.alters[k] # fail /\ Lacks(log'.alters[k]))
                   => log'.alters[k][2] \in DOMAIN schema'[log'.alters[k][1]]]_vars

\* C21: no create_tables step ends the process: whatever table or default row
\* it could not set up, the start goes on to migrate_additive_schema and
\* app.run().
C21_StartupFailureNotFatal ==
    [][(\E fail \in Failures : create_tables(fail)) => boot'.pc = "migrate"]_vars

\* ------------------------------------------------- claims on SpecCurate
\* The frequencies stored for a question text, added up over the rows that
\* hold it.
RECURSIVE FrequencyOf(_, _)
FrequencyOf(table, text) ==
    IF table = <<>> THEN 0
    ELSE (IF Head(table).question = text THEN Head(table).frequency ELSE 0)
         + FrequencyOf(Tail(table), text)

\* Every FAQ row is still there with its question and a frequency that is
\* not lower.
FrequenciesKept ==
    \A j \in FaqIds :
       /\ j <= Len(faqs')
       /\ faqs'[j].question = faqs[j].question
       /\ faqs'[j].frequency >= faqs[j].frequency

\* The FAQ rows that hold the text, and those of them that are switched on.
Holding(text) == {j \in FaqIds : faqs[j].question = text}
ActiveHolding(text) == {j \in Holding(text) : faqs[j].is_active}

\* C24 as stated: no step lowers the frequency of a FAQ row, and every
\* accepted submission whose trimmed text some FAQ row holds raises the
\* frequency stored for that text by exactly 1.
C24_EverySubmitCounts ==
    [][/\ FrequenciesKept
       /\ \A form \in CurateForms, faq_error \in BOOLEAN :
             (/\ submit_query_step(form, faq_error)
              /\ resp'.flash = Accepted
              /\ Holding(Strip(FormMessage(form))) # {})
             => FrequencyOf(faqs', Strip(FormMessage(form)))
                  = FrequencyOf(faqs, Strip(FormMessage(form))) + 1]_vars

\* C24, amended: no step lowers the frequency of a FAQ row.  An accepted
\* submission whose aggregation completes raises by 1 the frequency of the
\* first active row that holds its trimmed text and changes no other row;
\* when only rows that are switched off hold the text, it adds a new active
\* row of frequency 1 and leaves every row as it was; when the aggregation
\* fails, the faqs table is as before.
C24_CompletedAggregationCounts ==
    [][/\ FrequenciesKept
       /\ \A form \in CurateForms, faq_error \in BOOLEAN :
             (/\ submit_query_step(form, faq_error)
              /\ resp'.flash = Accepted
              /\ Holding(Strip(FormMessage(form))) # {})
             => LET text == Strip(FormMessage(form))
                    on == ActiveHolding(text)
                IN IF faq_error THEN faqs' = faqs
                   ELSE IF on # {}
                   THEN /\ Len(faqs') = Len(faqs)
                        /\ \A j \in FaqIds :
                              faqs'[j] =
                                 IF j \in on /\ \A k \in on : j <= k
                                 THEN [faqs[j] EXCEPT !.frequency = @ + 1]
                                 ELSE faqs[j]
                   ELSE /\ Len(faqs') = Len(faqs) + 1
                        /\ SubSeq(faqs', 1, Len(faqs)) = faqs
                        /\ faqs'[Len(faqs')].question = text
                        /\ faqs'[Len(faqs')].frequency = 1
                        /\ faqs'[Len(faqs')].is_active]_vars

\* A submission was accepted while the only row holding its text was switched
\* off: that row kept its frequency and a new active row of frequency 1 was
\* added for the same text.
C24_Witness ==
    /\ resp.flash = Accepted
    /\ Len(queries) = 2
    /\ Len(faqs) = 2
    /\ faqs[1].question = queries[2].message
    /\ ~faqs[1].is_active
    /\ faqs[1].frequency = 1
    /\ faqs[2].question = queries[2].message
    /\ faqs[2].is_active
    /\ faqs[2].frequency = 1

\* ------------------------------------------------ claims on SpecPromote
\* What a promotion leaves alone: the queries and the frequency of every FAQ
\* row there was; and the one row it adds, with its back-reference.
PromotionFrame(qid) ==
    /\ queries' = queries
    /\ Len(faqs') = Len(faqs) + 1
    /\ \A j \in FaqIds : faqs'[j].frequency = faqs[j].frequency
    /\ faqs'[Len(faqs')].from_query_id = qid

\* C26 as stated: mark_query_as_faq on an existing query adds exactly one FAQ
\* row whose question is the query's message, whose answer is the query's
\* response and whose back-reference is the query id, and changes no
\* frequency and no query.
C26_PromotionCopiesQuery ==
    [][session.admin_logged_in =>
         \A qid \in QueryIds :
            mark_query_as_faq(qid)
            => /\ PromotionFrame(qid)
               /\ faqs'[Len(faqs')].question = queries[qid].message
               /\ faqs'[Len(faqs')].answer = queries[qid].response]_vars

\* C26, amended: the question is the first 1000 characters of the query's
\* message, and the answer is the query's admin_response when that is set and
\* not empty, else its response when that is set and not empty, else unset.
C26_PromotionCutsAndPrefers ==
    [][session.admin_logged_in =>
         \A qid \in QueryIds :
            mark_query_as_faq(qid)
            => LET q == queries[qid]
                   cut == IF Len(q.message) > 1000 THEN 1000 ELSE Len(q.message)
               IN /\ PromotionFrame(qid)
                  /\ faqs'[Len(faqs')].question = SubSeq(q.message, 1, cut)
                  /\ faqs'[Len(faqs')].answer =
                        IF ~Absent(q.admin_response) THEN q.admin_response
                        ELSE IF ~Absent(q.response) THEN q.response
                        ELSE NoneT]_vars

\* A promoted row holds the first 1000 characters of a longer message, and
\* the admin_response of a query whose response is another text.
C26_Witness ==
    /\ resp.flash = "Query added to FAQs"
    /\ \E j \in FaqIds :
          LET q == faqs[j].from_query_id
          IN /\ q \in QueryIds
             /\ Len(queries[q].message) = 1001
             /\ Len(faqs[j].question) = 1000
             /\ faqs[j].answer = <<"a">>
             /\ queries[q].admin_response = <<"a">>
             /\ queries[q].response = <<"b">>

\* -------------------------------------------------- claims on SpecBlock
BlockedIds == 1..Len(blocked_emails)

\* C25: a toggle_block_guest by a logged-in admin on a non-empty address
\* keeps every blocked_emails row with its address; when no row has the
\* trimmed, lower-cased address it adds one row for it with is_active true,
\* else it flips is_active of the row that has it and of no other; afterwards
\* no two rows have the same address.
C25_ToggleKeepsHistory ==
    [][session.admin_logged_in =>
         \A raw \in GuestAddresses :
            (toggle_block_guest(raw) /\ ~Absent(raw) /\ Strip(raw) # <<>>)
            => LET address == Lower(Strip(raw))
                   entries == {b \in BlockedIds : blocked_emails[b].email = address}
               IN /\ \A b \in BlockedIds :
                        /\ b <= Len(blocked_emails')
                        /\ blocked_emails'[b].email = blocked_emails[b].email
                        /\ blocked_emails'[b].is_active =
                              IF b \in entries THEN ~blocked_emails[b].is_active
                                               ELSE blocked_emails[b].is_active
                  /\ IF entries = {}
                     THEN /\ Len(blocked_emails') = Len(blocked_emails) + 1
                          /\ blocked_emails'[Len(blocked_emails')].email = address
                          /\ blocked_emails'[Len(blocked_emails')].is_active
                     ELSE Len(blocked_emails') = Len(blocked_emails)
                  /\ \A a, b \in 1..Len(blocked_emails') :
                        blocked_emails'[a].email = blocked_emails'[b].email => a = b]_vars

\* Two addresses have been blocked and one of them unblocked again: both
\* entries are stored.
C25_Witness ==
    /\ resp.flash = "Guest email block status updated"
    /\ Len(blocked_emails) = 2
    /\ \E a, b \in BlockedIds :
          /\ blocked_emails[a].email = <<"e">>
          /\ ~blocked_emails[a].is_active
          /\ blocked_emails[b].email = <<"f">>
          /\ blocked_emails[b].is_active

\* ------------------------------------------------- claims on SpecAccess
\* A request to one of the admin-only routes.
AdminOnly ==
    \/ update_status(1, "Resolved", <<"r">>, 1, TRUE)
    \/ admin_reply(1, <<"b">>)
    \/ toggle_block_student(1)
    \/ toggle_block_guest(<<"e">>)
    \/ admin_faq(<<"k">>, <<>>)
    \/ toggle_faq(1)
    \/ edit_faq(1, <<"a">>)
    \/ mark_query_as_faq(1)

\* C28: without the admin flag in the session, a request to an admin-only
\* route is answered with the redirect to the admin login, leaves queries,
\* students, blocked_emails and faqs as they are and makes no mail.send call;
\* without the student flag, student_dashboard is answered with the redirect
\* to the student login and leaves queries as they are.
C28_NoSessionNoEffect ==
    [][/\ (~session.admin_logged_in /\ AdminOnly)
          => /\ resp' = Response("Please log in as admin", 302)
             /\ queries' = queries
             /\ students' = students
             /\ blocked_emails' = blocked_emails
             /\ faqs' = faqs
             /\ outbox' = <<>>
       /\ (~session.student_logged_in /\ student_dashboard)
          => /\ resp' = Response("Please log in as a student", 302)
             /\ queries' = queries]_vars

\* An admin-only request was turned away from a session without the admin
\* flag while a guest query, a blocked address and a FAQ entry were stored.
C28_Witness ==
    /\ resp = Response("Please log in as admin", 302)
    /\ ~session.admin_logged_in
    /\ Len(queries) >= 1
    /\ queries[1].student_id = NoneId
    /\ queries[1].status = "Pending"
    /\ Len(blocked_emails) = 1
    /\ Len(faqs) >= 1

\* ------------------------------------------------- claims on SpecSignup
StudentIds == 1..Len(students)

\* The address a sign-up form asks for, as it is stored.
AskedEmail(form) == Lower(Strip(IF form.email = NoneT THEN <<>> ELSE form.email))

\* C27: after every step of the interleaved sign-ups, registrations and
\* seedings no two students rows have the same student_id and no two have
\* the same email; a sign-up or registration that begins when its address is
\* registered, and an insert that is reached when its address has been
\* registered meanwhile, add no row.
C27_StudentsUnique ==
    [][/\ \A a, b \in 1..Len(students') :
             (\/ students'[a].student_id = students'[b].student_id
              \/ students'[a].email = students'[b].email)
             => a = b
       /\ \A p \in {1, 2}, form \in SignupForms \cup RegisterForms :
             (/\ \/ signup_begin(p, "student_signup", form)
                 \/ signup_begin(p, "register", form)
              /\ \E i \in StudentIds : students[i].email = AskedEmail(form))
             => students' = students /\ requests'[p].at = "idle"
       /\ \A p \in {1, 2} :
             (/\ signup_insert(p)
              /\ \E i \in StudentIds : students[i].email = requests[p].email)
             => students' = students /\ resp'.code = 500]_vars

\* Two callers were inside the sign-up with the same address at once: one row
\* has it, and the caller that reached its insert second was answered 500;
\* the default student is stored, and a registration that found 'student'
\* taken was stored as 'student1'.
C27_Witness ==
    /\ resp.code = 500
    /\ Cardinality({i \in StudentIds :
                       students[i].email = <<"e", "@", "e", ".", "e", "e">>}) = 1
    /\ \E i \in StudentIds : students[i].student_id = <<"e">>
    /\ \E i \in StudentIds : students[i].student_id = STUDENT
    /\ \E i \in StudentIds : students[i].student_id = STUDENT \o <<"1">>

\* --------------------------------------------------- claims on SpecLife
\* Every id of the table before the step is an id after it.
IdsKept(before, after) == Len(after) >= Len(before)

\* The fields a row gets when it is created and that tell which row it is.
SameQuery(a, b) ==
    /\ a.name = b.name /\ a.email = b.email /\ a.message = b.message
    /\ a.category = b.category /\ a.student_id = b.student_id
SameStudent(a, b) ==
    a.student_id = b.student_id /\ a.name = b.name /\ a.email = b.email
SameFaq(a, b) ==
    a.question = b.question /\ a.category = b.category
    /\ a.from_query_id = b.from_query_id

\* C22: in a process started without RESET_DB=1 no step deletes a row of
\* queries, students or faqs: every id stays, it keeps denoting the row it was
\* given to, and an FAQ entry at most changes its is_active flag, answer and
\* frequency.
C22_NoRowDeleted ==
    [][boot'.RESET_DB # "1"
       => /\ IdsKept(queries, queries') /\ IdsKept(students, students')
          /\ IdsKept(faqs, faqs')
          /\ \A i \in 1..Len(queries) : SameQuery(queries[i], queries'[i])
          /\ \A i \in 1..Len(students) : SameStudent(students[i], students'[i])
          /\ \A i \in 1..Len(faqs) : SameFaq(faqs[i], faqs'[i])]_vars

\* The process was started again without the flag and serves; a query was
\* submitted and answered, a student signed up, and the FAQ entry of the
\* message was switched off and is still stored.
C22_Witness ==
    /\ boot.runs = MaxRuns /\ boot.RESET_DB = "" /\ boot.pc = "serving"
    /\ Len(queries) >= 1 /\ queries[1].status = "Resolved"
    /\ \E i \in 1..Len(students) : students[i].email = <<"e", "@", "e", ".", "e", "e">>
    /\ \E f \in 1..Len(faqs) : ~faqs[f].is_active

\* A table of the storage file is gone.
Dropped(before, after) ==
    \E t \in Tables : DOMAIN before[t] # {} /\ DOMAIN after[t] = {}

\* C23: a step that removes the storage file or drops a table is the start
\* of a process with RESET_DB=1; with the flag unset neither the startup nor
\* a request handler takes a table away or empties one.
C23_ResetOnlyOnFlag ==
    [][(\/ Dropped(schema, schema')
        \/ Len(queries') < Len(queries) \/ Len(students') < Len(students)
        \/ Len(admins') < Len(admins) \/ Len(faqs') < Len(faqs)
        \/ Len(blocked_emails') < Len(blocked_emails))
       => /\ boot'.RESET_DB = "1"
          /\ boot.pc # "import" /\ boot'.pc = "import"]_vars

\* A process was started with RESET_DB=1: the file that held the default
\* admin and student is gone, no table and no row is left.
C23_Witness ==
    /\ boot.pc = "import" /\ boot.RESET_DB = "1" /\ boot.runs > 1
    /\ \A t \in Tables : DOMAIN schema[t] = {}
    /\ queries = <<>> /\ students = <<>> /\ admins = <<>> /\ faqs = <<>>

\* --------------------------------------------------- claims on SpecRace
\* C29: when two update_status calls on one query id have both returned, the
\* stored row is what the call that committed last wrote: its status, its
\* response text in response and admin_response and, for a student query,
\* its reply text, its time and the unseen flag.
C29_LastCommitWins ==
    \A p \in Procs, o \in Procs :
        (/\ p # o
         /\ requests[p].kind = "update_status" /\ requests[o].kind = "update_status"
         /\ requests[p].at = "done" /\ requests[o].at = "done"
         /\ requests[p].q = requests[o].q
         /\ requests[p].last)
        => LET row == queries[requests[p].q]
           IN /\ row.status = requests[p].status
              /\ row.response = requests[p].response_text
              /\ row.admin_response = requests[p].response_text
              /\ row.student_id # NoneId
                 => /\ row.admin_reply_text = Strip(requests[p].response_text)
                    /\ row.admin_reply_at = requests[p].now
                    /\ ~row.admin_reply_seen

\* -------------------------------------------------- claims on SpecCrowd
\* The accepted submissions of a message text.
Asked(text) == {i \in 1..Len(queries) : queries[i].message = text}

\* C30: once the submissions in flight have returned, every message text that
\* was submitted has exactly one active FAQ entry, and its frequency is the
\* number of the accepted submissions of that text.
C30_NoLostFaqUpdate ==
    (\A p \in Procs : requests[p].at = "idle")
    => \A i \in 1..Len(queries) :
          LET entries == {f \in 1..Len(faqs) :
                             faqs[f].question = queries[i].message /\ faqs[f].is_active}
          IN /\ Cardinality(entries) = 1
             /\ \A f \in entries :
                   faqs[f].frequency = Cardinality(Asked(queries[i].message))

\* --------------------------------------------------- claims on SpecSeed
\* Some caller has run the seeding step for table t and no caller is inside
\* it.
Seeded(t) ==
    /\ \E p \in Procs : seeders[p].at = "done" /\ SeedTable(seeders[p].kind) = t
    /\ \A p \in Procs : seeders[p].at = "insert" => SeedTable(seeders[p].kind) # t

\* C18: once the seeding step for the default admin, or for the default
\* student, has been run by one or more callers and none is inside it, there
\* is exactly one row with username 'admin', or with student_id 'student'.
C18_ExactlyOneDefaultRow ==
    /\ Seeded("admins")
       => Cardinality({i \in 1..Len(admins) : admins[i].username = ADMIN}) = 1
    /\ Seeded("students")
       => Cardinality({i \in 1..Len(students) : students[i].student_id = STUDENT}) = 1

\* C31: a caller of the seeding step whose insert was refused while the
\* default row is there (another caller had inserted it) gets no exception
\* out of the step.
C31_CollisionIsAlreadyExists ==
    \A p \in Procs :
        (/\ seeders[p].at = "done" /\ seeders[p].raised
         /\ HasDefaultRow(SeedTable(seeders[p].kind)))
        => ~SeedPropagates(seeders[p].kind)

\* ------------------------------------------------- claims on SpecRecover
\* A SELECT of table t through its model class fails on the schema sch.
Unreadable(sch, t) == \E c \in DOMAIN Declared[t] : c \notin DOMAIN sch[t]

\* How often message m was logged, and whether an ALTER was attempted twice.
Times(errors, m) == Cardinality({k \in 1..Len(errors) : errors[k] = m})
Repeated(alters) ==
    \E j \in 1..Len(alters), k \in 1..Len(alters) : j < k /\ alters[j] = alters[k]

\* What one request of a page reading the given tables does.
OneRecovery(tables) ==
    IF \A t \in tables : ~Unreadable(schema, t)
    THEN /\ resp'.code = 200 /\ schema' = schema
         /\ log'.errors = <<>> /\ log'.alters = <<>>
    ELSE /\ Times(log'.errors, "attempting migration") = 1
         /\ ~Repeated(log'.alters)
         /\ resp'.code \in {200, 500}
         /\ resp'.code = 200 => \A t \in tables : ~Unreadable(schema', t)
         /\ resp'.code = 500 <=> Times(log'.errors, "Migration attempt failed") = 1
         /\ Times(log'.errors, "Migration attempt failed") <= 1

\* C32: a request of admin_dashboard or view_queries whose read fails on the
\* schema runs create_tables once and reads once more; when that fails too
\* the request ends with the error page, and no request reconciles twice.
C32_OneRecoveryPerRequest ==
    [][/\ (admin_required /\ \E fail \in Failures : admin_dashboard(fail))
          => OneRecovery({"queries", "students"})
       /\ (admin_required /\ \E fail \in Failures : view_queries(fail))
          => OneRecovery({"queries"})]_vars

\* A page was asked for while the queries table lacked a column, and the
\* read after create_tables failed as well: the error page, logged once.
C32_Witness ==
    /\ boot.pc = "serving" /\ session.admin_logged_in
    /\ resp.code = 500
    /\ Times(log.errors, "attempting migration") = 1
    /\ Times(log.errors, "Migration attempt failed") = 1
    /\ Unreadable(schema, "queries")

C34_StudentIdNamesStudent ==
    \A i \in 1..Len(queries) :
        queries[i].student_id = NoneId \/ queries[i].student_id \in 1..Len(students)

\* -------------------------------------------------- claims on SpecRespond
\* C35: in every state every query has the same value in response and in
\* admin_response: both None or both the same text.
C35_ResponseFieldsAgree ==
    \A i \in 1..Len(queries) : queries[i].response = queries[i].admin_response

\* ---------------------------------------------------- claims on SpecBlank
\* C36: every stored query has a name, an email and a message of one
\* character or more.
C36_StoredFieldsNonEmpty ==
    \A i \in 1..Len(queries) :
        /\ queries[i].name # <<>> /\ queries[i].name # NoneT
        /\ queries[i].email # <<>> /\ queries[i].email # NoneT
        /\ queries[i].message # <<>> /\ queries[i].message # NoneT

\* ----------------------------------------------------- claims on SpecDash
\* C37: a dashboard fetch of the student of the session is rendered with
\* queries of that student only, keeps every table but queries and the
\* session, keeps every query of another student and every guest query, and
\* changes at most admin_reply_seen in a query of the student.
C37_DashboardFrame ==
    [][(session.student_logged_in /\ student_dashboard)
       => /\ UNCHANGED <<students, admins, blocked_emails, faqs, session>>
          /\ \A i \in DashboardQueries(queries, session.student_id) :
                queries[i].student_id = session.student_id
          /\ Len(queries') = Len(queries)
          /\ \A i \in 1..Len(queries) :
                /\ queries[i].student_id # session.student_id
                   => queries'[i] = queries[i]
                /\ \E seen \in BOOLEAN :
                      queries'[i] = [queries[i] EXCEPT !.admin_reply_seen = seen]]_vars

\* The second student has opened the dashboard: the reply to the own query
\* is seen, the reply to the query of the default student is still unseen.
C37_Witness ==
    /\ resp = Response("", 200) /\ session.student_id = 2
    /\ Len(queries) = 2
    /\ queries[1].student_id = 1 /\ queries[1].admin_reply_text = <<"r">>
    /\ ~queries[1].admin_reply_seen
    /\ queries[2].student_id = 2 /\ queries[2].admin_reply_text = <<"r">>
    /\ queries[2].admin_reply_seen

C39_AdminResponseStays ==
    [][/\ \A i \in 1..Len(queries) :
             (queries[i].admin_response # NoneT /\ queries[i].admin_response # <<>>)
             => (/\ i <= Len(queries')
                 /\ queries'[i].admin_response # NoneT
                 /\ queries'[i].admin_response # <<>>)
       /\ session.admin_logged_in =>
             \A query_id \in 1..Len(queries), status \in StatusInputs,
                response_text \in ResponseInputs :
                (\E now \in Clock, send_ok \in BOOLEAN :
                    update_status(query_id, status, response_text, now, send_ok))
                => /\ (response_text = NoneT \/ response_text = <<>>)
                      => queries'[query_id].admin_response
                            = queries[query_id].admin_response
                   /\ status = ""
                      => queries'[query_id].status = queries[query_id].status]_vars

\* A query answered with "r " by update_status has since been the target of
\* admin_reply without a text: status responded, response None,
\* admin_response still there.
C39_Witness ==
    /\ Len(queries) >= 1
    /\ queries[1].admin_response = <<"r", " ">>
    /\ queries[1].status = "responded"
    /\ queries[1].response = NoneT

====
